---- MODULE Spec2Model ----
(***************************************************************************)
(* simpleperf symbolization and sample iteration:                          *)
(*   - ReportLib::GetNextSample / SetCurrentSample (report_lib_interface)  *)
(*   - Dso symbol tables, DebugElfFileFinder, build-id map (dso.cpp)       *)
(* 64-bit unsigned quantities are modelled modulo MaxU64 + 1.              *)
(***************************************************************************)
EXTENDS Integers, Sequences, FiniteSets, TLC

\* --------------------------------------------------------------- variables
VARIABLES
  \* the record file on disk (inputs)
  file_exists,          \* RecordFileReader::CreateInstance succeeds
  meta_info,            \* FEAT_META_INFO: absent, unreadable, or trace_offcpu's value
  \* ReportLib
  record_file_reader_,  \* "null" or "open"
  trace_offcpu_,
  show_art_frames_,
  next_sample_cache_,   \* tid -> cached SampleRecord or NoRecord
  thread_tree_,         \* the records thread_tree_.Update was given, in order
  current_record_,
  current_sample_,
  callchain_entries_,
  current_symbol_,      \* index into callchain_entries_ of the entry pointed to
  current_callchain_,   \* nr, and the index into callchain_entries_ of entries
  current_mappings_,
  current_event_,
  \* history of the run
  read,                 \* the records ReadRecord has returned, each with its index
  ended,                \* ReadRecord has reported the end of the records
  emitted,              \* the samples GetNextSample has returned
  returned              \* what the last GetNextSample call returned

sampleVars ==
  <<file_exists, meta_info, record_file_reader_, trace_offcpu_, show_art_frames_,
    next_sample_cache_, thread_tree_, current_record_, current_sample_,
    callchain_entries_, current_symbol_, current_callchain_, current_mappings_,
    current_event_, read, ended, emitted, returned>>

\* the frame loop of SetCurrentSample applied to a raw call chain
VARIABLES
  raw_chain,     \* the ips of the raw call chain
  filter_show,   \* show_art_frames_ during the filtering
  filtered,      \* the surviving <<ip, map>> frames, or "none" before the filter ran
  refiltered     \* the filter applied to its own output, or "none"

filterVars == <<raw_chain, filter_show, filtered, refiltered>>

\* one Dso and the process-wide state its loading reads
VARIABLES
  type_,                           \* DsoType
  path_,
  is_loaded_,
  symbols_,                        \* sequence of Symbol
  unknown_symbols_,                \* vaddr -> Symbol, a function on the vaddrs added
  vmlinux_,                        \* Dso::vmlinux_
  kallsyms_,                       \* Dso::kallsyms_
  read_kernel_symbols_from_proc_,
  build_id_map_,                   \* Dso::build_id_map_: path -> BuildId
  found,                           \* the last FindSymbol call: its vaddr and result
  last_load                        \* the LoadSymbols calls so far and the last one

dsoVars ==
  <<type_, path_, is_loaded_, symbols_, unknown_symbols_, vmlinux_, kallsyms_,
    read_kernel_symbols_from_proc_, found, last_load>>

\* Dso::SetBuildIds / FindExpectedBuildIdForPath
VARIABLES
  last_build_ids,    \* the list the latest SetBuildIds call was given
  earlier_paths,     \* the paths of the lists given to earlier SetBuildIds calls
  expected           \* the last FindExpectedBuildIdForPath call: path and result

buildIdVars == <<build_id_map_, last_build_ids, earlier_paths, expected>>

\* DebugElfFileFinder and the files it looks at
VARIABLES
  disk,                    \* path -> build-id readable from the file there (inputs)
  build_id_list,           \* contents of /symfs/build_id_list, or "unreadable" (input)
  symfs_dir_,
  build_id_to_file_map_,
  vdso_64bit_,
  vdso_32bit_,
  debug_file,              \* the last FindDebugFile call: arguments and result
  symfs_call               \* the last SetSymFsDir call: argument and result

finderVars ==
  <<disk, build_id_list, symfs_dir_, build_id_to_file_map_, vdso_64bit_, vdso_32bit_,
    debug_file, symfs_call>>

\* ElfDso / DexFileDso: the DEX offsets and the minimum virtual address
VARIABLES
  created_as,          \* the DsoType CreateDso was given: ElfDso or DexFileDso object
  min_vaddr_,          \* ElfDso::min_vaddr_
  dex_file_dso_,       \* ElfDso::dex_file_dso_: "null" or "set"
  dex_file_offsets_,   \* DexFileDso::dex_file_offsets_ (of the Dso or of its nested one)
  min_vaddr_in_file,   \* what reading the ELF file's min executable vaddr gives (input)
  offsets_passed,      \* the offsets AddDexFileOffset was given, in call order
  min_vaddr_returned   \* the last MinVirtualAddress call: whether made, and its result

elfVars ==
  <<created_as, min_vaddr_, dex_file_dso_, dex_file_offsets_, min_vaddr_in_file,
    offsets_passed, min_vaddr_returned>>

\* the Dso objects alive in the process and the process-wide state of class Dso
\* (with vmlinux_, kallsyms_, read_kernel_symbols_from_proc_, build_id_map_ and
\* the DebugElfFileFinder above)
VARIABLES
  dsos,                    \* type -> how many Dso objects of that type are alive
  dso_count_,              \* Dso::dso_count_
  demangle_,               \* Dso::demangle_
  g_dump_id_,              \* Dso::g_dump_id_
  symbol_name_allocator,   \* "empty" or "holding" names
  life_last                \* the last creation or destruction, and whether the
                           \* process-wide state was at its defaults before it

lifeVars ==
  <<dsos, dso_count_, demangle_, g_dump_id_, symbol_name_allocator, life_last>>

\* Dso::Load as a function of the symbols installed and the symbols loaded
VARIABLES
  load_call            \* prior (symbols_ before), loaded, merged (symbols_ after), done

\* the file a DexFileDso reads its symbols from
VARIABLES
  dex_file,            \* whether it can be opened, its size, the headers at the offsets
  dex_parse            \* the ReadSymbolsFromDexFile calls so far and the last one

dexVars == <<load_call, dex_file, dex_parse>>

vars ==
  <<sampleVars, filterVars, dsoVars, buildIdVars, finderVars, elfVars, lifeVars, dexVars>>

notSampleVars == <<filterVars, dsoVars, buildIdVars, finderVars, elfVars, lifeVars, dexVars>>
notFilterVars == <<sampleVars, dsoVars, buildIdVars, finderVars, elfVars, lifeVars, dexVars>>
notDsoVars == <<sampleVars, filterVars, buildIdVars, finderVars, elfVars, lifeVars, dexVars>>
notBuildIdVars == <<sampleVars, filterVars, dsoVars, finderVars, elfVars, lifeVars, dexVars>>
notFinderVars == <<sampleVars, filterVars, dsoVars, buildIdVars, elfVars, lifeVars, dexVars>>
\* what the load of a DexFileDso leaves alone
notDexVars ==
  <<sampleVars, filterVars, buildIdVars, finderVars, elfVars, lifeVars, load_call, dex_file>>
\* what Dso::Load applied to given symbols leaves alone
notLoadVars ==
  <<sampleVars, filterVars, dsoVars, buildIdVars, finderVars, elfVars, lifeVars, dex_file,
    dex_parse>>
\* what the ElfDso operations leave alone: all but type_ and found of the Dso
notElfVars ==
  <<sampleVars, filterVars, buildIdVars, finderVars, lifeVars, dexVars, path_, is_loaded_,
    symbols_, unknown_symbols_, vmlinux_, kallsyms_, read_kernel_symbols_from_proc_,
    last_load>>
\* the process-wide state Dso::~Dso resets
processWideVars ==
  <<symbol_name_allocator, demangle_, vmlinux_, kallsyms_,
    read_kernel_symbols_from_proc_, build_id_map_, g_dump_id_, symfs_dir_,
    build_id_to_file_map_, vdso_64bit_, vdso_32bit_>>
\* what creating and destroying Dso objects leaves alone
notLifeVars ==
  <<sampleVars, filterVars, elfVars, dexVars, type_, path_, is_loaded_, symbols_,
    unknown_symbols_, found, last_load, last_build_ids, earlier_paths, expected, disk,
    build_id_list, debug_file, symfs_call>>

\* ------------------------------------------------------------------ bounds
\* largest value of the (scaled down) uint64_t; arithmetic wraps at MaxU64 + 1
MaxU64 == 3
\* records the record file holds at most
MaxRecords == 3
\* frames of a raw call chain in the frame-filter specification
MaxChain == 4
\* symbols a parser delivers to one LoadSymbols call at most
MaxSyms == 2
\* symbols SetSymbols installs at most
MaxPrior == 2
\* pairs of the list given to one SetBuildIds call at most
MaxPairs == 2
\* AddDexFileOffset calls on one Dso at most
MaxOffsets == 2
\* Dso objects alive at once at most (nested ones not counted)
MaxDsos == 2

U64Mod == MaxU64 + 1

Max(a, b) == IF a >= b THEN a ELSE b

\* android::base::EndsWith
EndsWith(s, suffix) ==
  /\ Len(s) >= Len(suffix)
  /\ SubSeq(s, Len(s) - Len(suffix) + 1, Len(s)) = suffix

\* ------------------------------------------------------ frames and mappings
\* The Dso a MapEntry refers to, as far as SetCurrentSample reads it:
\* its type() and its Path().
DsoLibart == [type |-> "DSO_ELF_FILE", path |-> "/system/lib64/libart.so"]
DsoDex == [type |-> "DSO_DEX_FILE", path |-> "/data/app/base.vdex"]
DsoFoo == [type |-> "DSO_ELF_FILE", path |-> "/system/lib64/libfoo.so"]
\* libart.so itself reclassified to DEX (ElfDso::AddDexFileOffset on it)
DsoDexLibart == [type |-> "DSO_DEX_FILE", path |-> "/apex/lib64/libart.so"]

\* thread_tree_.FindMap(current_thread_, ip, in_kernel): the mapping table the
\* thread tree holds; ip n lies in the n-th mapping.
MapTable == <<DsoLibart, DsoDex, DsoFoo, DsoDexLibart>>
Ips == 1..Len(MapTable)
FindMap(ip) == [dso |-> MapTable[ip], start_addr |-> ip, len |-> 1, pgoff |-> ip - 1]

is_map_for_interpreter(map) == EndsWith(map.dso.path, "/libart.so")

\* the DEX branch popping one trailing interpreter frame only
PopOneInterpreterFrame(ip_maps) ==
  IF ip_maps # <<>> /\ is_map_for_interpreter(ip_maps[Len(ip_maps)][2])
  THEN SubSeq(ip_maps, 1, Len(ip_maps) - 1)
  ELSE ip_maps

\* the while loop of the DEX branch: pop trailing interpreter frames
RECURSIVE PopInterpreterFrames(_)
PopInterpreterFrames(ip_maps) ==
  IF ip_maps # <<>> /\ is_map_for_interpreter(ip_maps[Len(ip_maps)][2])
  THEN PopInterpreterFrames(SubSeq(ip_maps, 1, Len(ip_maps) - 1))
  ELSE ip_maps

\* the iteration skipping every interpreter frame, near a Java method or not
FilterStepSkipInterpreter(st, ip, map, show_art_frames) ==
  IF show_art_frames
  THEN [st EXCEPT !.ip_maps = Append(@, <<ip, map>>)]
  ELSE IF map.dso.type = "DSO_DEX_FILE"
       THEN [ip_maps |-> Append(PopInterpreterFrames(st.ip_maps), <<ip, map>>),
             near_java_method |-> TRUE]
       ELSE IF is_map_for_interpreter(map)
            THEN st
            ELSE [ip_maps |-> Append(st.ip_maps, <<ip, map>>), near_java_method |-> FALSE]

\* one iteration of the for loop over ips: st = [ip_maps, near_java_method]
FilterStep(st, ip, map, show_art_frames) ==
  IF show_art_frames
  THEN [st EXCEPT !.ip_maps = Append(@, <<ip, map>>)]
  ELSE IF map.dso.type = "DSO_DEX_FILE"
       THEN [ip_maps |-> Append(PopInterpreterFrames(st.ip_maps), <<ip, map>>),
             near_java_method |-> TRUE]
       ELSE IF is_map_for_interpreter(map)
            THEN IF st.near_java_method
                 THEN st
                 ELSE [st EXCEPT !.ip_maps = Append(@, <<ip, map>>)]
            ELSE [ip_maps |-> Append(st.ip_maps, <<ip, map>>), near_java_method |-> FALSE]

\* the for loop: frames is the sequence of <<ip, map>> the loop visits
RECURSIVE FilterLoop(_, _, _, _)
FilterLoop(frames, i, st, show_art_frames) ==
  IF i > Len(frames)
  THEN st.ip_maps
  ELSE FilterLoop(frames, i + 1,
                  FilterStep(st, frames[i][1], frames[i][2], show_art_frames),
                  show_art_frames)

FilterFrames(frames, show_art_frames) ==
  FilterLoop(frames, 1, [ip_maps |-> <<>>, near_java_method |-> FALSE], show_art_frames)

\* ips of a record's call chain resolved through FindMap
ResolveIps(ips) == [i \in 1..Len(ips) |-> <<ips[i], FindMap(ips[i])>>]

\* ------------------------------------------------------------ record file
Tids == {7, 8}
Times == {1, MaxU64}
\* the two SAMPLE payloads the record file is built from: the record's own
\* period and its raw call chain (ips)
SamplePayloads ==
  { [period |-> 5, attr |-> 0, ips |-> <<1, 1, 2, 1, 3>>],
    [period |-> 9, attr |-> 1, ips |-> <<3, 1>>] }
SampleRecords ==
  { [type |-> "SAMPLE", tid |-> t, time |-> tm, period |-> pl.period,
     attr |-> pl.attr, ips |-> pl.ips] :
      t \in Tids, tm \in Times, pl \in SamplePayloads }
CommRecord ==
  [type |-> "COMM", tid |-> 7, time |-> 0, period |-> 0, attr |-> 0, ips |-> <<>>]
Records == SampleRecords \cup {CommRecord}
MetaInfos == {"absent", "unreadable", "true"}

NoRecord ==
  [type |-> "NONE", tid |-> 0, time |-> 0, period |-> 0, attr |-> 0, ips |-> <<>>,
   idx |-> 0]
NoSample == [ip |-> 0, tid |-> 0, time |-> 0, period |-> 0]

\* OpenRecordFileIfNecessary: [ok, reader, trace_offcpu]
OpenRecordFileIfNecessary(reader, trace_offcpu) ==
  IF reader = "null"
  THEN IF ~file_exists
       THEN [ok |-> FALSE, reader |-> "null", trace_offcpu |-> trace_offcpu]
       ELSE IF meta_info = "unreadable"
            THEN [ok |-> FALSE, reader |-> "open", trace_offcpu |-> trace_offcpu]
            ELSE [ok |-> TRUE, reader |-> "open",
                  trace_offcpu |-> IF meta_info = "absent" THEN trace_offcpu
                                   ELSE meta_info = "true"]
  ELSE [ok |-> TRUE, reader |-> reader, trace_offcpu |-> trace_offcpu]

\* ReadLoop handing out every SAMPLE record at once
RECURSIVE ReadLoopNoDefer(_, _, _, _, _)
ReadLoopNoDefer(batch, i, cache, tree, trace_offcpu) ==
  IF i > Len(batch)
  THEN [cur |-> NoRecord, at |-> i, cache |-> cache, tree |-> tree]
  ELSE LET r == batch[i]
           tree2 == Append(tree, r)
       IN IF r.type = "SAMPLE"
          THEN [cur |-> r, at |-> i,
                cache |-> IF trace_offcpu THEN [cache EXCEPT ![r.tid] = r] ELSE cache,
                tree |-> tree2]
          ELSE ReadLoopNoDefer(batch, i + 1, cache, tree2, trace_offcpu)

\* ReadLoop that does not replace the cached record
RECURSIVE ReadLoopKeepCache(_, _, _, _, _)
ReadLoopKeepCache(batch, i, cache, tree, trace_offcpu) ==
  IF i > Len(batch)
  THEN [cur |-> NoRecord, at |-> i, cache |-> cache, tree |-> tree]
  ELSE LET r == batch[i]
           tree2 == Append(tree, r)
       IN IF r.type = "SAMPLE"
          THEN IF trace_offcpu
               THEN IF cache[r.tid] = NoRecord
                    THEN ReadLoopKeepCache(batch, i + 1, [cache EXCEPT ![r.tid] = r],
                                           tree2, trace_offcpu)
                    ELSE [cur |-> r, at |-> i, cache |-> cache, tree |-> tree2]
               ELSE [cur |-> r, at |-> i, cache |-> cache, tree |-> tree2]
          ELSE ReadLoopKeepCache(batch, i + 1, cache, tree2, trace_offcpu)

\* ReadLoop giving thread_tree_ only the records that are no SAMPLE
RECURSIVE ReadLoopUpdateOthers(_, _, _, _, _)
ReadLoopUpdateOthers(batch, i, cache, tree, trace_offcpu) ==
  IF i > Len(batch)
  THEN [cur |-> NoRecord, at |-> i, cache |-> cache, tree |-> tree]
  ELSE LET r == batch[i]
       IN IF r.type = "SAMPLE"
          THEN IF trace_offcpu
               THEN IF cache[r.tid] = NoRecord
                    THEN ReadLoopUpdateOthers(batch, i + 1, [cache EXCEPT ![r.tid] = r],
                                              tree, trace_offcpu)
                    ELSE [cur |-> cache[r.tid], at |-> i,
                          cache |-> [cache EXCEPT ![r.tid] = r], tree |-> tree]
               ELSE [cur |-> r, at |-> i, cache |-> cache, tree |-> tree]
          ELSE ReadLoopUpdateOthers(batch, i + 1, cache, Append(tree, r), trace_offcpu)

\* ReadLoop handing a deferred sample out with the thread tree as it was when
\* the sample itself was read
RECURSIVE ReadLoopTreeAtSample(_, _, _, _, _)
ReadLoopTreeAtSample(batch, i, cache, tree, trace_offcpu) ==
  IF i > Len(batch)
  THEN [cur |-> NoRecord, at |-> i, cache |-> cache, tree |-> tree]
  ELSE LET r == batch[i]
           tree2 == Append(tree, r)
       IN IF r.type = "SAMPLE"
          THEN IF trace_offcpu
               THEN IF cache[r.tid] = NoRecord
                    THEN ReadLoopTreeAtSample(batch, i + 1, [cache EXCEPT ![r.tid] = r],
                                              tree2, trace_offcpu)
                    ELSE [cur |-> cache[r.tid], at |-> i,
                          cache |-> [cache EXCEPT ![r.tid] = r],
                          tree |-> SubSeq(tree2, 1, cache[r.tid].idx)]
               ELSE [cur |-> r, at |-> i, cache |-> cache, tree |-> tree2]
          ELSE ReadLoopTreeAtSample(batch, i + 1, cache, tree2, trace_offcpu)

\* One pass of the while (true) loop of GetNextSample over the records the
\* call reads (batch), from the i-th on.  Yields the record chosen as
\* current_record_ (or NoRecord when the records ran out), the position the
\* loop stopped at, and the cache and thread tree it leaves.
RECURSIVE ReadLoop(_, _, _, _, _)
ReadLoop(batch, i, cache, tree, trace_offcpu) ==
  IF i > Len(batch)
  THEN [cur |-> NoRecord, at |-> i, cache |-> cache, tree |-> tree]
  ELSE LET r == batch[i]
           tree2 == Append(tree, r)
       IN IF r.type = "SAMPLE"
          THEN IF trace_offcpu
               THEN IF cache[r.tid] = NoRecord
                    THEN ReadLoop(batch, i + 1, [cache EXCEPT ![r.tid] = r],
                                  tree2, trace_offcpu)
                    ELSE [cur |-> cache[r.tid], at |-> i,
                          cache |-> [cache EXCEPT ![r.tid] = r], tree |-> tree2]
               ELSE [cur |-> r, at |-> i, cache |-> cache, tree |-> tree2]
          ELSE ReadLoop(batch, i + 1, cache, tree2, trace_offcpu)

\* current_sample_.period as SetCurrentSample computes it (uint64_t arithmetic)
SamplePeriod(r, cache, trace_offcpu) ==
  IF trace_offcpu
  THEN LET next_time == Max(cache[r.tid].time, (r.time + 1) % U64Mod)
       IN (next_time - r.time) % U64Mod
  ELSE r.period

\* callchain_entries_: one entry per surviving frame
CallchainEntries(r, show_art_frames) ==
  LET ip_maps == FilterFrames(ResolveIps(r.ips), show_art_frames)
  IN [i \in 1..Len(ip_maps) |->
        [ip |-> ip_maps[i][1],
         symbol |-> [dso_name |-> ip_maps[i][2].dso.path, mapping |-> i]]]

\* AddMapping: the Mapping appended to current_mappings_
AddMapping(map) ==
  [start |-> map.start_addr, end |-> map.start_addr + map.len, pgoff |-> map.pgoff]

\* current_mappings_ after the second loop of SetCurrentSample, which starts
\* from the cleared vector
CurrentMappings(r, show_art_frames) ==
  LET ip_maps == FilterFrames(ResolveIps(r.ips), show_art_frames)
  IN [i \in 1..Len(ip_maps) |-> AddMapping(ip_maps[i][2])]

\* current_callchain_ as the end of SetCurrentSample sets it
CurrentCallchain(entries) == [nr |-> Len(entries) - 1, entries |-> 2]
NoCallchain == [nr |-> 0, entries |-> 0]

\* SetCurrentSample keeping the ip of the record
CurrentSampleOwnIp(r, entries, cache, trace_offcpu) ==
  [ip |-> r.ips[1], tid |-> r.tid, time |-> r.time,
   period |-> SamplePeriod(r, cache, trace_offcpu)]

\* SetCurrentSample: the Sample handed to the caller
CurrentSample(r, entries, cache, trace_offcpu) ==
  [ip |-> entries[1].ip, tid |-> r.tid, time |-> r.time,
   period |-> SamplePeriod(r, cache, trace_offcpu)]

\* SetEventOfCurrentSample: the index into event_attrs_
CurrentEvent(r, trace_offcpu) == IF trace_offcpu THEN 0 ELSE r.attr

Indexed(batch, base) ==
  [i \in 1..Len(batch) |->
     [type |-> batch[i].type, tid |-> batch[i].tid, time |-> batch[i].time,
      period |-> batch[i].period, attr |-> batch[i].attr, ips |-> batch[i].ips,
      idx |-> base + i]]

BatchesUpTo(n) == UNION { [1..k -> Records] : k \in 0..n }

SampleInit ==
  /\ file_exists \in BOOLEAN
  /\ meta_info \in MetaInfos
  /\ record_file_reader_ = "null"
  /\ trace_offcpu_ = FALSE
  /\ show_art_frames_ = FALSE
  /\ next_sample_cache_ = [t \in Tids |-> NoRecord]
  /\ thread_tree_ = <<>>
  /\ current_record_ = NoRecord
  /\ current_sample_ = NoSample
  /\ callchain_entries_ = <<>>
  /\ current_symbol_ = 0
  /\ current_callchain_ = NoCallchain
  /\ current_mappings_ = <<>>
  /\ current_event_ = 0
  /\ read = <<>>
  /\ ended = FALSE
  /\ emitted = <<>>
  /\ returned = "start"

\* GetNextSample returning nullptr because the record file cannot be opened
GetNextSampleOpenFails ==
  LET o == OpenRecordFileIfNecessary(record_file_reader_, trace_offcpu_)
  IN /\ ~o.ok
     /\ record_file_reader_' = o.reader
     /\ trace_offcpu_' = o.trace_offcpu
     /\ returned' = "none"
     /\ UNCHANGED <<file_exists, meta_info, show_art_frames_, next_sample_cache_,
                    thread_tree_, current_record_, current_sample_,
                    callchain_entries_, current_symbol_, current_callchain_,
                    current_mappings_, current_event_, read, ended, emitted>>
     /\ UNCHANGED notSampleVars

\* GetNextSample reading the records of batch and returning the sample the
\* last of them completes
GetNextSampleEmits ==
  LET o == OpenRecordFileIfNecessary(record_file_reader_, trace_offcpu_)
  IN /\ o.ok
     /\ ~ended
     /\ \E raw \in BatchesUpTo(MaxRecords - Len(read)) :
          LET batch == Indexed(raw, Len(read))
              l == ReadLoop(batch, 1, next_sample_cache_, thread_tree_, o.trace_offcpu)
              entries == CallchainEntries(l.cur, show_art_frames_)
              sample == CurrentSample(l.cur, entries, l.cache, o.trace_offcpu)
          IN /\ Len(batch) >= 1
             /\ l.cur # NoRecord
             /\ l.at = Len(batch)
             /\ read' = read \o batch
             /\ next_sample_cache_' = l.cache
             /\ thread_tree_' = l.tree
             /\ current_record_' = l.cur
             /\ callchain_entries_' = entries
             /\ current_symbol_' = 1
             /\ current_callchain_' = CurrentCallchain(entries)
             /\ current_mappings_' = CurrentMappings(l.cur, show_art_frames_)
             /\ current_sample_' = sample
             /\ current_event_' = CurrentEvent(l.cur, o.trace_offcpu)
             /\ emitted' = Append(emitted,
                             [idx |-> l.cur.idx, tid |-> sample.tid, time |-> sample.time,
                              period |-> sample.period, upto |-> Len(read) + Len(batch)])
     /\ record_file_reader_' = o.reader
     /\ trace_offcpu_' = o.trace_offcpu
     /\ returned' = "sample"
     /\ UNCHANGED <<file_exists, meta_info, show_art_frames_, ended>>
     /\ UNCHANGED notSampleVars

\* GetNextSample reading the records of batch, none of which completes a
\* sample, and returning nullptr when ReadRecord reports the end
GetNextSampleEnds ==
  LET o == OpenRecordFileIfNecessary(record_file_reader_, trace_offcpu_)
  IN /\ o.ok
     /\ \E raw \in BatchesUpTo(IF ended THEN 0 ELSE MaxRecords - Len(read)) :
          LET batch == Indexed(raw, Len(read))
              l == ReadLoop(batch, 1, next_sample_cache_, thread_tree_, o.trace_offcpu)
          IN /\ l.cur = NoRecord
             /\ read' = read \o batch
             /\ next_sample_cache_' = l.cache
             /\ thread_tree_' = l.tree
     /\ ended' = TRUE
     /\ record_file_reader_' = o.reader
     /\ trace_offcpu_' = o.trace_offcpu
     /\ returned' = "none"
     /\ UNCHANGED <<file_exists, meta_info, show_art_frames_, current_record_,
                    current_sample_, callchain_entries_, current_symbol_,
                    current_callchain_, current_mappings_, current_event_, emitted>>
     /\ UNCHANGED notSampleVars

ShowArtFrames ==
  /\ \E show \in BOOLEAN : show_art_frames_' = show
  /\ UNCHANGED <<file_exists, meta_info, record_file_reader_, trace_offcpu_,
                 next_sample_cache_, thread_tree_, current_record_, current_sample_,
                 callchain_entries_, current_symbol_, current_callchain_,
                 current_mappings_, current_event_, read, ended, emitted, returned>>
  /\ UNCHANGED notSampleVars

SampleNext ==
  \/ GetNextSampleOpenFails
  \/ GetNextSampleEmits
  \/ GetNextSampleEnds
  \/ ShowArtFrames

ChainsUpTo(n) == UNION { [1..k -> Ips] : k \in 1..n }

FilterInit ==
  /\ raw_chain \in ChainsUpTo(MaxChain)
  /\ filter_show \in BOOLEAN
  /\ filtered = "none"
  /\ refiltered = "none"

FilterIdle ==
  /\ raw_chain = <<1>>
  /\ filter_show = FALSE
  /\ filtered = "none"
  /\ refiltered = "none"

\* the frame loop of SetCurrentSample on the raw chain
ApplyFilter ==
  /\ filtered = "none"
  /\ filtered' = FilterFrames(ResolveIps(raw_chain), filter_show)
  /\ UNCHANGED <<raw_chain, filter_show, refiltered>>
  /\ UNCHANGED notFilterVars

\* the frame loop of SetCurrentSample on the frames that survived
ApplyFilterAgain ==
  /\ filtered # "none"
  /\ refiltered = "none"
  /\ refiltered' = FilterFrames(filtered, filter_show)
  /\ UNCHANGED <<raw_chain, filter_show, filtered>>
  /\ UNCHANGED notFilterVars

FilterNext == ApplyFilter \/ ApplyFilterAgain

SampleIdle ==
  /\ file_exists = FALSE
  /\ meta_info = "absent"
  /\ record_file_reader_ = "null"
  /\ trace_offcpu_ = FALSE
  /\ show_art_frames_ = FALSE
  /\ next_sample_cache_ = [t \in Tids |-> NoRecord]
  /\ thread_tree_ = <<>>
  /\ current_record_ = NoRecord
  /\ current_sample_ = NoSample
  /\ callchain_entries_ = <<>>
  /\ current_symbol_ = 0
  /\ current_callchain_ = NoCallchain
  /\ current_mappings_ = <<>>
  /\ current_event_ = 0
  /\ read = <<>>
  /\ ended = FALSE
  /\ emitted = <<>>
  /\ returned = "start"


\* ------------------------------------------------------------------- maps
\* std::map / std::unordered_map as a function on the keys present
EmptyMap == <<>>
\* insert(): an existing key keeps its value
MapInsert(m, k, v) ==
  IF k \in DOMAIN m THEN m
  ELSE [x \in DOMAIN m \cup {k} |-> IF x = k THEN v ELSE m[x]]
\* operator[] assignment: the key is created or overwritten
MapAssign(m, k, v) == [x \in DOMAIN m \cup {k} |-> IF x = k THEN v ELSE m[x]]

\* ---------------------------------------------------------------- symbols
NoBuildId == 0          \* BuildId(): the empty build-id
BuildIds == {1, 2}

SymAddrs == {0, 1}
SymLens == {0, MaxU64}
SymNames == {"f", "g"}
Symbol(name, addr, len) == [addr |-> addr, len |-> len, name |-> name]

\* what ParseSymbolsFromElfFile hands to the callback: functions named f and
\* text-section labels named g
ElfFileSymbols ==
  { [name |-> n, vaddr |-> a, len |-> l, is_func |-> (n = "f"), is_label |-> (n = "g"),
     is_in_text_section |-> TRUE] : n \in SymNames, a \in SymAddrs, l \in SymLens }
\* what ReadSymbolsFromDexFile delivers
DexFileSymbols ==
  { [name |-> n, offset |-> a, len |-> l] : n \in SymNames, a \in SymAddrs, l \in SymLens }
\* what ProcessKernelSymbols hands to the callback
KernelSymbols ==
  { [name |-> n, addr |-> a, type |-> t] : n \in SymNames, a \in {0, 1, 2}, t \in {"T", "d"} }

ListsUpTo(S, n) == UNION { [1..k -> S] : k \in 0..n }

CompareValueByAddr(s1, s2) == s1.addr < s2.addr

IsSortedByAddr(symbols) ==
  \A i \in 1..Len(symbols) - 1 : ~CompareValueByAddr(symbols[i + 1], symbols[i])

\* std::sort with CompareValueByAddr: the order of symbols of equal addr is
\* unspecified, so every arrangement sorted by addr is a possible outcome
SortOutcomes(symbols) ==
  LET n == Len(symbols)
      perms == { f \in [1..n -> 1..n] : \A i, j \in 1..n : i # j => f[i] # f[j] }
  IN { t \in { [i \in 1..n |-> symbols[f[i]]] : f \in perms } : IsSortedByAddr(t) }

\* the loop of SortAndFixSymbols over the sorted symbols
FixLengths(symbols) ==
  [i \in 1..Len(symbols) |->
     IF i < Len(symbols) /\ symbols[i].len = 0
     THEN [symbols[i] EXCEPT !.len = (symbols[i + 1].addr - symbols[i].addr) % U64Mod]
     ELSE symbols[i]]

\* SortAndFixSymbols without the std::sort
SortAndFixSymbolsNoSort(symbols) == { FixLengths(symbols) }

\* SortAndFixSymbols: the set of vectors it can leave
SortAndFixSymbols(symbols) == { FixLengths(t) : t \in SortOutcomes(symbols) }

\* ElfDso::LoadSymbols without a dex_file_dso_
ElfDsoLoadSymbols(parsed) ==
  LET kept == SelectSeq(parsed,
                        LAMBDA s : s.is_func \/ (s.is_label /\ s.is_in_text_section))
  IN SortAndFixSymbols([i \in 1..Len(kept) |->
                          Symbol(kept[i].name, kept[i].vaddr, kept[i].len)])

\* KernelModuleDso::LoadSymbols
KernelModuleDsoLoadSymbols(parsed) ==
  LET kept == SelectSeq(parsed, LAMBDA s : s.is_func \/ s.is_in_text_section)
  IN SortAndFixSymbols([i \in 1..Len(kept) |->
                          Symbol(kept[i].name, kept[i].vaddr, kept[i].len)])

\* DexFileDso::LoadSymbols: ok is what ReadSymbolsFromDexFile returned
DexFileDsoLoadSymbols(ok, dex_file_symbols) ==
  IF ~ok THEN { <<>> }
  ELSE SortAndFixSymbols([i \in 1..Len(dex_file_symbols) |->
                            Symbol(dex_file_symbols[i].name, dex_file_symbols[i].offset,
                                   dex_file_symbols[i].len)])

\* KernelDso::ReadSymbolsFromKallsyms
ReadSymbolsFromKallsyms(kernel_symbols) ==
  LET kept == SelectSeq(kernel_symbols,
                        LAMBDA s : s.type \in {"T", "t", "W", "w"} /\ s.addr # 0)
  IN [i \in 1..Len(kept) |-> Symbol(kept[i].name, kept[i].addr, 0)]

\* the end of KernelDso::LoadSymbols: sort, fix, and stretch the last symbol
KernelFinish(symbols) ==
  { IF t = <<>> THEN t
    ELSE [t EXCEPT ![Len(t)].len = MaxU64 - t[Len(t)].addr] :
    t \in SortAndFixSymbols(symbols) }

\* KernelDso::LoadSymbols preferring the kallsyms text to vmlinux
KernelSymbolSourceKallsymsFirst(vmlinux, kallsyms, from_proc, build_id, real_build_id) ==
  IF kallsyms # "" THEN "kallsyms"
  ELSE IF vmlinux # "" THEN "vmlinux"
  ELSE IF from_proc \/ build_id # NoBuildId
       THEN IF build_id # NoBuildId
               /\ (real_build_id = NoBuildId \/ build_id # real_build_id)
            THEN "none"
            ELSE "proc"
       ELSE "none"

\* the if chain of KernelDso::LoadSymbols: where the symbols are taken from.
\* real_build_id is what GetKernelBuildId reads (NoBuildId: it fails).
KernelSymbolSource(vmlinux, kallsyms, from_proc, build_id, real_build_id) ==
  IF vmlinux # "" THEN "vmlinux"
  ELSE IF kallsyms # "" THEN "kallsyms"
  ELSE IF from_proc \/ build_id # NoBuildId
       THEN IF build_id # NoBuildId
               /\ (real_build_id = NoBuildId \/ build_id # real_build_id)
            THEN "none"
            ELSE "proc"
       ELSE "none"

\* KernelDso::LoadSymbols reading vmlinux
KernelDsoLoadVmlinux(parsed) ==
  LET kept == SelectSeq(parsed, LAMBDA s : s.is_func)
  IN KernelFinish([i \in 1..Len(kept) |->
                     Symbol(kept[i].name, kept[i].vaddr, kept[i].len)])

\* KernelDso::LoadSymbols reading kallsyms_ or /proc/kallsyms
KernelDsoLoadKallsyms(kernel_symbols) ==
  KernelFinish(ReadSymbolsFromKallsyms(kernel_symbols))

\* every vector LoadSymbols can return, over everything the parsers can deliver
ElfLoadResults ==
  UNION { ElfDsoLoadSymbols(p) : p \in ListsUpTo(ElfFileSymbols, MaxSyms) }
KernelModuleLoadResults ==
  UNION { KernelModuleDsoLoadSymbols(p) : p \in ListsUpTo(ElfFileSymbols, MaxSyms) }
DexLoadResults ==
  UNION { DexFileDsoLoadSymbols(ok, p) :
            ok \in BOOLEAN, p \in ListsUpTo(DexFileSymbols, MaxSyms) }
KernelLoadResults ==
  [ source \in {"vmlinux", "kallsyms", "proc", "none"} |->
      CASE source = "vmlinux" ->
             UNION { KernelDsoLoadVmlinux(p) : p \in ListsUpTo(ElfFileSymbols, MaxSyms) }
        [] source = "none" -> KernelFinish(<<>>)
        [] OTHER ->
             UNION { KernelDsoLoadKallsyms(p) : p \in ListsUpTo(KernelSymbols, MaxSyms) } ]

\* std::set_union of two ranges sorted by comp
RECURSIVE set_union(_, _)
set_union(a, b) ==
  IF a = <<>> THEN b
  ELSE IF b = <<>> THEN a
  ELSE IF CompareValueByAddr(b[1], a[1])
       THEN <<b[1]>> \o set_union(a, Tail(b))
       ELSE <<a[1]>> \o
            set_union(Tail(a), IF ~CompareValueByAddr(a[1], b[1]) THEN Tail(b) ELSE b)

\* Dso::Load dropping what LoadSymbols returned when symbols are installed
MergeKeepInstalled(symbols, loaded) == IF symbols = <<>> THEN loaded ELSE symbols

\* Dso::Load after LoadSymbols returned loaded: the new symbols_
Merge(symbols, loaded) == IF symbols = <<>> THEN loaded ELSE set_union(symbols, loaded)

\* std::upper_bound(symbols, Symbol("", v, 0), CompareValueByAddr) as the
\* binary search over [first, first + count); yields the index of the iterator
RECURSIVE upper_bound(_, _, _, _)
upper_bound(symbols, first, count, v) ==
  IF count = 0 THEN first
  ELSE LET step == count \div 2
           it == first + step
       IN IF ~CompareValueByAddr(Symbol("", v, 0), symbols[it])
          THEN upper_bound(symbols, it + 1, count - (step + 1), v)
          ELSE upper_bound(symbols, first, step, v)

NoSymbol == Symbol("", 0, 0)
NotFound(v) == [vaddr |-> v, from |-> "none", symbol |-> NoSymbol, index |-> 0]
\* found while the last step was no FindSymbol call
NoFindSymbol == [vaddr |-> 0, from |-> "no call", symbol |-> NoSymbol, index |-> 0]

LookupUnknown(unknown, v) ==
  IF v \in DOMAIN unknown
  THEN [vaddr |-> v, from |-> "unknown", symbol |-> unknown[v], index |-> 0]
  ELSE NotFound(v)

\* FindSymbol without the test of addr + len
LookupNoLenCheck(symbols, unknown, v) ==
  LET it == upper_bound(symbols, 1, Len(symbols), v)
  IN IF it # 1
     THEN [vaddr |-> v, from |-> "symbols", symbol |-> symbols[it - 1], index |-> it - 1]
     ELSE LookupUnknown(unknown, v)

\* Dso::FindSymbol after the load: what it returns for vaddr_in_dso v
Lookup(symbols, unknown, v) ==
  LET it == upper_bound(symbols, 1, Len(symbols), v)
  IN IF it # 1 /\ symbols[it - 1].addr <= v
        /\ (symbols[it - 1].addr + symbols[it - 1].len) % U64Mod > v
     THEN [vaddr |-> v, from |-> "symbols", symbol |-> symbols[it - 1], index |-> it - 1]
     ELSE LookupUnknown(unknown, v)

\* ------------------------------------------------------------------- Dso
DsoTypes ==
  {"DSO_KERNEL", "DSO_KERNEL_MODULE", "DSO_ELF_FILE", "DSO_DEX_FILE", "DSO_UNKNOWN_FILE"}
KernelPath == "[kernel.kallsyms]"
DsoPath(type) ==
  CASE type = "DSO_KERNEL" -> KernelPath
    [] type = "DSO_KERNEL_MODULE" -> "/vendor/lib/modules/m.ko"
    [] type = "DSO_ELF_FILE" -> "/system/lib64/libfoo.so"
    [] type = "DSO_DEX_FILE" -> "/data/app/base.vdex"
    [] OTHER -> "unknown"

Vaddrs == 0..MaxU64
UnknownAddrs == {1}
\* the vectors SetSymbols is given: sorted by addr, as the file feature holds them
PriorSymbols == {Symbol("f", 0, MaxU64), Symbol("g", 1, 0), Symbol("f", 1, MaxU64)}
PriorLists == { l \in ListsUpTo(PriorSymbols, MaxPrior) : IsSortedByAddr(l) }

\* Dso::FindExpectedBuildIdForPath
FindExpectedBuildIdForPath(map, path) ==
  IF path \in DOMAIN map THEN map[path] ELSE NoBuildId

\* what GetKernelBuildId can read while a Dso of this type loads
RealBuildIds(type) == IF type = "DSO_KERNEL" THEN {NoBuildId} \cup BuildIds ELSE {NoBuildId}

\* where LoadSymbols() of the Dso's variant takes the symbols from
SymbolSource(real_build_id) ==
  IF type_ = "DSO_KERNEL"
  THEN KernelSymbolSource(vmlinux_, kallsyms_, read_kernel_symbols_from_proc_,
                          FindExpectedBuildIdForPath(build_id_map_, path_), real_build_id)
  ELSE IF type_ = "DSO_UNKNOWN_FILE" THEN "none" ELSE "file"

\* LoadSymbols() of the Dso's variant: every vector it can return
LoadSymbols(real_build_id) ==
  CASE type_ = "DSO_ELF_FILE" -> ElfLoadResults
    [] type_ = "DSO_KERNEL_MODULE" -> KernelModuleLoadResults
    [] type_ = "DSO_DEX_FILE" -> DexLoadResults
    [] type_ = "DSO_KERNEL" ->
         KernelLoadResults[SymbolSource(real_build_id)]
    [] OTHER -> { <<>> }

\* no LoadSymbols call yet
NoLoad == [calls |-> 0, source |-> "none", real_build_id |-> NoBuildId, empty |-> TRUE]

\* Dso::Load that leaves is_loaded_ as it was
LoadLeavesUnloaded(is_loaded, symbols, loaded) ==
  [is_loaded |-> is_loaded, symbols |-> Merge(symbols, loaded)]

\* Dso::Load, LoadSymbols() having returned loaded
Load(is_loaded, symbols, loaded) ==
  [is_loaded |-> TRUE, symbols |-> Merge(symbols, loaded)]

DsoInit ==
  /\ type_ \in DsoTypes
  /\ path_ = DsoPath(type_)
  /\ is_loaded_ = FALSE
  /\ symbols_ = <<>>
  /\ unknown_symbols_ = EmptyMap
  /\ IF type_ = "DSO_KERNEL"
     THEN /\ vmlinux_ \in {"", "/vmlinux"}
          /\ kallsyms_ \in {"", "kallsyms text"}
          /\ read_kernel_symbols_from_proc_ \in BOOLEAN
          /\ build_id_map_ \in {EmptyMap, [p \in {KernelPath} |-> 1]}
     ELSE /\ vmlinux_ = ""
          /\ kallsyms_ = ""
          /\ read_kernel_symbols_from_proc_ = FALSE
          /\ build_id_map_ = EmptyMap
  /\ found = NoFindSymbol
  /\ last_load = NoLoad

DsoIdle ==
  /\ type_ = "DSO_UNKNOWN_FILE"
  /\ path_ = DsoPath(type_)
  /\ is_loaded_ = FALSE
  /\ symbols_ = <<>>
  /\ unknown_symbols_ = EmptyMap
  /\ vmlinux_ = ""
  /\ kallsyms_ = ""
  /\ read_kernel_symbols_from_proc_ = FALSE
  /\ found = NoFindSymbol
  /\ last_load = NoLoad

\* Dso::SetSymbols
SetSymbols ==
  /\ \E symbols \in PriorLists : symbols_' = symbols
  /\ found' = NoFindSymbol
  /\ UNCHANGED <<type_, path_, is_loaded_, unknown_symbols_, vmlinux_, kallsyms_,
                 read_kernel_symbols_from_proc_, last_load>>
  /\ UNCHANGED notDsoVars

\* Dso::AddUnknownSymbol
AddUnknownSymbol ==
  /\ \E v \in UnknownAddrs :
       unknown_symbols_' = MapInsert(unknown_symbols_, v, Symbol("unknown", v, 1))
  /\ found' = NoFindSymbol
  /\ UNCHANGED <<type_, path_, is_loaded_, symbols_, vmlinux_, kallsyms_,
                 read_kernel_symbols_from_proc_, last_load>>
  /\ UNCHANGED notDsoVars

\* Dso::FindSymbol on a Dso not loaded yet: Load(), then the search
FindSymbolLoads ==
  /\ ~is_loaded_
  /\ \E real \in RealBuildIds(type_) :
       \E loaded \in LoadSymbols(real) :
         LET l == Load(is_loaded_, symbols_, loaded)
         IN /\ is_loaded_' = l.is_loaded
            /\ symbols_' = l.symbols
            /\ last_load' = [calls |-> last_load.calls + 1, source |-> SymbolSource(real),
                             real_build_id |-> real, empty |-> loaded = <<>>]
  /\ \E v \in Vaddrs : found' = Lookup(symbols_', unknown_symbols_, v)
  /\ UNCHANGED <<type_, path_, unknown_symbols_, vmlinux_, kallsyms_,
                 read_kernel_symbols_from_proc_>>
  /\ UNCHANGED notDsoVars

\* Dso::FindSymbol on a loaded Dso
FindSymbolLoaded ==
  /\ is_loaded_
  /\ \E v \in Vaddrs : found' = Lookup(symbols_, unknown_symbols_, v)
  /\ UNCHANGED <<type_, path_, is_loaded_, symbols_, unknown_symbols_, vmlinux_,
                 kallsyms_, read_kernel_symbols_from_proc_, last_load>>
  /\ UNCHANGED notDsoVars

DsoNext ==
  \/ SetSymbols
  \/ AddUnknownSymbol
  \/ FindSymbolLoads
  \/ FindSymbolLoaded

\* ---------------------------------------------------------- build-id map
BuildIdPaths == {"/lib/a.so", "/lib/b.so"}
BuildIdPairs == { <<p, b>> : p \in BuildIdPaths, b \in BuildIds }

\* SetBuildIds storing with map[path] = build_id
RECURSIVE AssignPairs(_, _)
AssignPairs(map, build_ids) ==
  IF build_ids = <<>> THEN map
  ELSE AssignPairs(MapAssign(map, build_ids[1][1], build_ids[1][2]), Tail(build_ids))

\* the loop of Dso::SetBuildIds: map.insert(pair) for each pair in turn
RECURSIVE InsertPairs(_, _)
InsertPairs(map, build_ids) ==
  IF build_ids = <<>> THEN map
  ELSE InsertPairs(MapInsert(map, build_ids[1][1], build_ids[1][2]), Tail(build_ids))

\* expected while the last step was no FindExpectedBuildIdForPath call
NoExpected == [path |-> "", build_id |-> NoBuildId]

BuildIdGhostInit ==
  /\ last_build_ids = <<>>
  /\ earlier_paths = {}
  /\ expected = NoExpected

BuildIdInit ==
  /\ build_id_map_ = EmptyMap
  /\ BuildIdGhostInit

\* Dso::SetBuildIds
SetBuildIds ==
  /\ \E build_ids \in ListsUpTo(BuildIdPairs, MaxPairs) :
       /\ build_id_map_' = InsertPairs(EmptyMap, build_ids)
       /\ last_build_ids' = build_ids
  /\ earlier_paths' =
       earlier_paths \cup { last_build_ids[i][1] : i \in 1..Len(last_build_ids) }
  /\ expected' = NoExpected
  /\ UNCHANGED notBuildIdVars

\* Dso::FindExpectedBuildIdForPath
FindExpectedBuildId ==
  /\ \E path \in BuildIdPaths \cup {"/lib/c.so"} :
       expected' = [path |-> path,
                    build_id |-> FindExpectedBuildIdForPath(build_id_map_, path)]
  /\ UNCHANGED <<build_id_map_, last_build_ids, earlier_paths>>
  /\ UNCHANGED notBuildIdVars

BuildIdNext == SetBuildIds \/ FindExpectedBuildId

\* ------------------------------------------------------ DebugElfFileFinder
\* android::base::Split(s, delimiter) for a one-character delimiter
RECURSIVE Split(_, _)
Split(s, delimiter) ==
  LET hits == { k \in 1..Len(s) : SubSeq(s, k, k) = delimiter }
  IN IF hits = {} THEN <<s>>
     ELSE LET k == CHOOSE k \in hits : \A j \in hits : k <= j
          IN <<SubSeq(s, 1, k - 1)>> \o Split(SubSeq(s, k + 1, Len(s)), delimiter)

\* BuildId::ToString
BuildIdToString(build_id) == IF build_id = 1 THEN "0x01" ELSE "0x02"

VdsoPath == "[vdso]"
ElfPath == "/lib/a.so"
FinderDsoPaths == {VdsoPath, ElfPath}
SymfsDirArgs == {"", "/symfs", "/symfs/", "/nodir"}
IsDir(path) == path \in {"/symfs", "/symfs/"}
VdsoFileArgs == {"/fake_vdso32", "/fake_vdso64"}
\* the files whose build-id FindDebugFile may read
DiskFiles == {ElfPath, "/symfs/x.so", "/symfs//lib/a.so", "/usr/lib/debug/lib/a.so"}
BuildIdListTexts ==
  {"unreadable", "0x01=x.so\n", "junk\n0x02=x.so\n0x01=x.so=2\n"}

\* GetBuildIdFromDsoPath: NoBuildId when it returns false
GetBuildIdFromDsoPath(path) == IF path \in DOMAIN disk THEN disk[path] ELSE NoBuildId

\* android::base::ReadFileToString: [ok, text]
ReadFileToString(path) ==
  IF path = "/symfs/build_id_list" /\ build_id_list # "unreadable"
  THEN [ok |-> TRUE, text |-> build_id_list]
  ELSE [ok |-> FALSE, text |-> ""]

\* the loop of SetSymFsDir taking the first two items of any line that has them
RECURSIVE ReadBuildIdListAnyItems(_, _)
ReadBuildIdListAnyItems(map, lines) ==
  IF lines = <<>> THEN map
  ELSE LET items == Split(lines[1], "=")
       IN ReadBuildIdListAnyItems(IF Len(items) >= 2
                                  THEN MapAssign(map, items[1], items[2])
                                  ELSE map,
                                  Tail(lines))

\* the loop of SetSymFsDir over the lines of build_id_list
RECURSIVE ReadBuildIdList(_, _)
ReadBuildIdList(map, lines) ==
  IF lines = <<>> THEN map
  ELSE LET items == Split(lines[1], "=")
       IN ReadBuildIdList(IF Len(items) = 2 THEN MapAssign(map, items[1], items[2])
                          ELSE map,
                          Tail(lines))

\* DebugElfFileFinder::SetSymFsDir: [ok, symfs_dir, map]
SetSymFsDirResult(symfs_dir) ==
  LET dirname == IF symfs_dir # "" /\ SubSeq(symfs_dir, Len(symfs_dir), Len(symfs_dir)) # "/"
                 THEN symfs_dir \o "/" ELSE symfs_dir
      file == ReadFileToString(dirname \o "build_id_list")
  IN IF symfs_dir # "" /\ ~IsDir(symfs_dir)
     THEN [ok |-> FALSE, symfs_dir |-> symfs_dir_, map |-> build_id_to_file_map_]
     ELSE [ok |-> TRUE, symfs_dir |-> dirname,
           map |-> IF file.ok THEN ReadBuildIdList(EmptyMap, Split(file.text, "\n"))
                   ELSE EmptyMap]

\* the lambda check_path of FindDebugFile
check_path(path, build_id) ==
  GetBuildIdFromDsoPath(path) # NoBuildId /\ GetBuildIdFromDsoPath(path) = build_id

\* FindInSymfs taking any candidate whose build-id can be read
FindInSymfsAnyBuildId(dso_path, build_id) ==
  LET key == BuildIdToString(build_id)
      readable(path) == GetBuildIdFromDsoPath(path) # NoBuildId
  IN IF key \in DOMAIN build_id_to_file_map_
        /\ readable(symfs_dir_ \o build_id_to_file_map_[key])
     THEN symfs_dir_ \o build_id_to_file_map_[key]
     ELSE IF readable(symfs_dir_ \o dso_path)
          THEN symfs_dir_ \o dso_path
          ELSE IF readable("/usr/lib/debug" \o dso_path)
               THEN "/usr/lib/debug" \o dso_path
               ELSE dso_path

\* the symfs branch of FindDebugFile once build_id is known
FindInSymfs(dso_path, build_id) ==
  LET key == BuildIdToString(build_id)
  IN IF key \in DOMAIN build_id_to_file_map_
        /\ check_path(symfs_dir_ \o build_id_to_file_map_[key], build_id)
     THEN symfs_dir_ \o build_id_to_file_map_[key]
     ELSE IF check_path(symfs_dir_ \o dso_path, build_id)
          THEN symfs_dir_ \o dso_path
          ELSE IF check_path("/usr/lib/debug" \o dso_path, build_id)
               THEN "/usr/lib/debug" \o dso_path
               ELSE dso_path

\* the [vdso] branch taking whichever override is set
FindVdsoIgnoringBitness(force_64bit) ==
  IF vdso_64bit_ # "" THEN vdso_64bit_
  ELSE IF vdso_32bit_ # "" THEN vdso_32bit_
  ELSE VdsoPath

\* the [vdso] branch of FindDebugFile
FindVdso(force_64bit) ==
  IF force_64bit /\ vdso_64bit_ # "" THEN vdso_64bit_
  ELSE IF ~force_64bit /\ vdso_32bit_ # "" THEN vdso_32bit_
  ELSE VdsoPath

\* DebugElfFileFinder::FindDebugFile: [result, build_id], build_id being the
\* BuildId& argument as the call leaves it
FindDebugFile(dso_path, force_64bit, build_id) ==
  IF dso_path = VdsoPath
  THEN [result |-> FindVdso(force_64bit), build_id |-> build_id]
  ELSE IF symfs_dir_ # ""
       THEN LET id == IF build_id # NoBuildId THEN build_id
                      ELSE GetBuildIdFromDsoPath(dso_path)
            IN IF id # NoBuildId
               THEN [result |-> FindInSymfs(dso_path, id), build_id |-> id]
               ELSE [result |-> dso_path, build_id |-> build_id]
       ELSE [result |-> dso_path, build_id |-> build_id]

\* debug_file while the last step was no FindDebugFile call
NoDebugFile ==
  [dso_path |-> "", force_64bit |-> FALSE, build_id |-> NoBuildId, result |-> "",
   build_id_out |-> NoBuildId]

\* symfs_call while the last step was no SetSymFsDir call
NoSymFsDirCall == [called |-> FALSE, symfs_dir |-> "", ok |-> FALSE, before |-> ""]

FinderInit ==
  /\ disk \in { d \in [DiskFiles -> {NoBuildId} \cup BuildIds] : d[ElfPath] # 2 }
  /\ build_id_list \in BuildIdListTexts
  /\ symfs_dir_ = ""
  /\ build_id_to_file_map_ = EmptyMap
  /\ vdso_64bit_ = ""
  /\ vdso_32bit_ = ""
  /\ debug_file = NoDebugFile
  /\ symfs_call = NoSymFsDirCall

FinderIdle ==
  /\ disk = [f \in DiskFiles |-> NoBuildId]
  /\ build_id_list = "unreadable"
  /\ symfs_dir_ = ""
  /\ build_id_to_file_map_ = EmptyMap
  /\ vdso_64bit_ = ""
  /\ vdso_32bit_ = ""
  /\ debug_file = NoDebugFile
  /\ symfs_call = NoSymFsDirCall

\* DebugElfFileFinder::SetSymFsDir
SetSymFsDir ==
  /\ \E symfs_dir \in SymfsDirArgs :
       LET r == SetSymFsDirResult(symfs_dir)
       IN /\ symfs_dir_' = r.symfs_dir
          /\ build_id_to_file_map_' = r.map
          /\ symfs_call' = [called |-> TRUE, symfs_dir |-> symfs_dir, ok |-> r.ok,
                            before |-> symfs_dir_]
  /\ debug_file' = NoDebugFile
  /\ UNCHANGED <<disk, build_id_list, vdso_64bit_, vdso_32bit_>>
  /\ UNCHANGED notFinderVars

\* DebugElfFileFinder::SetVdsoFile
SetVdsoFile ==
  /\ \E vdso_file \in VdsoFileArgs, is_64bit \in BOOLEAN :
       IF is_64bit
       THEN vdso_64bit_' = vdso_file /\ UNCHANGED vdso_32bit_
       ELSE vdso_32bit_' = vdso_file /\ UNCHANGED vdso_64bit_
  /\ debug_file' = NoDebugFile
  /\ symfs_call' = NoSymFsDirCall
  /\ UNCHANGED <<disk, build_id_list, symfs_dir_, build_id_to_file_map_>>
  /\ UNCHANGED notFinderVars

\* a call of DebugElfFileFinder::FindDebugFile
CallFindDebugFile ==
  /\ \E dso_path \in FinderDsoPaths, force_64bit \in BOOLEAN,
        build_id \in {NoBuildId} \cup BuildIds :
       LET r == FindDebugFile(dso_path, force_64bit, build_id)
       IN debug_file' = [dso_path |-> dso_path, force_64bit |-> force_64bit,
                         build_id |-> build_id, result |-> r.result,
                         build_id_out |-> r.build_id]
  /\ symfs_call' = NoSymFsDirCall
  /\ UNCHANGED <<disk, build_id_list, symfs_dir_, build_id_to_file_map_, vdso_64bit_,
                 vdso_32bit_>>
  /\ UNCHANGED notFinderVars

FinderNext == SetSymFsDir \/ SetVdsoFile \/ CallFindDebugFile

\* ------------------------------------------------------ ElfDso / DexFileDso
DexOffsets == {1, 2}
\* std::numeric_limits<uint64_t>::max(): min_vaddr_ not read yet
MinVaddrUnset == MaxU64
\* what ReadMinExecutableVirtualAddressFromElfFile gives: its status and addr
MinVaddrsInFile ==
  {[ok |-> FALSE, addr |-> 0]} \cup { [ok |-> TRUE, addr |-> a] : a \in 0..MaxU64 }
\* DexFileOffsets() returning nullptr
NoDexFileOffsets == [is_null |-> TRUE, offsets |-> <<>>]
\* min_vaddr_returned while the last step was no MinVirtualAddress call
NoMinVirtualAddress == [called |-> FALSE, value |-> 0]

\* AddDexFileOffset of an ElfDso that makes a new nested DexFileDso on every call
ElfDsoAddDexFileOffsetAnew(type, nested, offsets, dex_file_offset) ==
  [type |-> "DSO_DEX_FILE", dex_file_dso |-> "set", offsets |-> <<dex_file_offset>>]

\* ElfDso::AddDexFileOffset: the type_, dex_file_dso_ and nested offsets it leaves
ElfDsoAddDexFileOffset(type, nested, offsets, dex_file_offset) ==
  LET fresh == type = "DSO_ELF_FILE"
  IN [type |-> IF fresh THEN "DSO_DEX_FILE" ELSE type,
      dex_file_dso |-> IF fresh THEN "set" ELSE nested,
      offsets |-> Append(IF fresh THEN <<>> ELSE offsets, dex_file_offset)]

\* DexFileOffsets() of the Dso: DexFileDso's vector, or ElfDso's nested one
DexFileOffsets ==
  IF created_as = "DSO_DEX_FILE" \/ dex_file_dso_ # "null"
  THEN [is_null |-> FALSE, offsets |-> dex_file_offsets_]
  ELSE NoDexFileOffsets

\* ElfDso::MinVirtualAddress: the min_vaddr_ it leaves, which it returns
ElfDsoMinVirtualAddress(type, min_vaddr, in_file) ==
  IF min_vaddr = MinVaddrUnset
  THEN IF type = "DSO_ELF_FILE" /\ in_file.ok THEN in_file.addr ELSE 0
  ELSE min_vaddr

\* Dso::MinVirtualAddress of the variants that do not override it
DsoMinVirtualAddress == 0

ElfInit ==
  /\ created_as = type_
  /\ min_vaddr_ = MinVaddrUnset
  /\ dex_file_dso_ = "null"
  /\ dex_file_offsets_ = <<>>
  /\ min_vaddr_in_file \in MinVaddrsInFile
  /\ offsets_passed = <<>>
  /\ min_vaddr_returned = NoMinVirtualAddress

ElfIdle ==
  /\ created_as = type_
  /\ min_vaddr_ = MinVaddrUnset
  /\ dex_file_dso_ = "null"
  /\ dex_file_offsets_ = <<>>
  /\ min_vaddr_in_file = [ok |-> FALSE, addr |-> 0]
  /\ offsets_passed = <<>>
  /\ min_vaddr_returned = NoMinVirtualAddress

\* AddDexFileOffset on the ElfDso or DexFileDso
AddDexFileOffset ==
  /\ Len(offsets_passed) < MaxOffsets
  /\ \E dex_file_offset \in DexOffsets :
       /\ IF created_as = "DSO_DEX_FILE"
          THEN /\ dex_file_offsets_' = Append(dex_file_offsets_, dex_file_offset)
               /\ UNCHANGED <<type_, dex_file_dso_>>
          ELSE LET r == ElfDsoAddDexFileOffset(type_, dex_file_dso_, dex_file_offsets_,
                                               dex_file_offset)
               IN /\ type_' = r.type
                  /\ dex_file_dso_' = r.dex_file_dso
                  /\ dex_file_offsets_' = r.offsets
       /\ offsets_passed' = Append(offsets_passed, dex_file_offset)
  /\ min_vaddr_returned' = NoMinVirtualAddress
  /\ found' = NoFindSymbol
  /\ UNCHANGED <<created_as, min_vaddr_, min_vaddr_in_file>>
  /\ UNCHANGED notElfVars

\* MinVirtualAddress on the ElfDso or DexFileDso
MinVirtualAddress ==
  /\ IF created_as = "DSO_DEX_FILE"
     THEN /\ min_vaddr_returned' = [called |-> TRUE, value |-> DsoMinVirtualAddress]
          /\ UNCHANGED min_vaddr_
     ELSE /\ min_vaddr_' = ElfDsoMinVirtualAddress(type_, min_vaddr_, min_vaddr_in_file)
          /\ min_vaddr_returned' = [called |-> TRUE, value |-> min_vaddr_']
  /\ found' = NoFindSymbol
  /\ UNCHANGED <<type_, created_as, dex_file_dso_, dex_file_offsets_, min_vaddr_in_file,
                 offsets_passed>>
  /\ UNCHANGED notElfVars

\* SetMinVirtualAddress on the ElfDso (DexFileDso does not override the no-op)
SetMinVirtualAddress ==
  /\ \E min_vaddr \in 0..MaxU64 :
       min_vaddr_' = IF created_as = "DSO_DEX_FILE" THEN min_vaddr_ ELSE min_vaddr
  /\ min_vaddr_returned' = NoMinVirtualAddress
  /\ found' = NoFindSymbol
  /\ UNCHANGED <<type_, created_as, dex_file_dso_, dex_file_offsets_, min_vaddr_in_file,
                 offsets_passed>>
  /\ UNCHANGED notElfVars

ElfNext ==
  \/ AddDexFileOffset
  \/ MinVirtualAddress
  \/ SetMinVirtualAddress
  \/ FindSymbolLoads
  \/ FindSymbolLoaded

\* ------------------------------------------- Dso objects and process-wide state
\* the types CreateDso is called with, and the type of a reclassified ElfDso
LifeDsoTypes == {"DSO_ELF_FILE", "DSO_KERNEL"}
LiveDsoTypes == LifeDsoTypes \cup {"DSO_DEX_FILE"}
\* the objects the caller holds
HeldDsos == dsos["DSO_ELF_FILE"] + dsos["DSO_KERNEL"] + dsos["DSO_DEX_FILE"]
\* an ElfDso of type DSO_DEX_FILE owns a nested DexFileDso
HasNested(type) == type = "DSO_DEX_FILE"
\* the Dso objects alive, the nested DexFileDso of an ElfDso included
LiveDsos == HeldDsos + dsos["DSO_DEX_FILE"]

\* the values the static members have at program start and after the clean-up
ProcessWideDefaults ==
  <<"empty", TRUE, "", "", FALSE, EmptyMap, 0, "", EmptyMap, "", "">>

\* Dso::~Dso cleaning up whenever a Dso dies
DsoDestructorAlwaysCleans(count) == [count |-> count - 1, clean_up |-> TRUE]

\* Dso::~Dso on dso_count_ = count: the count it leaves, and whether it cleans up
DsoDestructor(count) == [count |-> count - 1, clean_up |-> count - 1 = 0]

\* the body of Dso::~Dso once the count reached zero
CleanUp ==
  /\ symbol_name_allocator' = "empty"
  /\ demangle_' = TRUE
  /\ vmlinux_' = ""
  /\ kallsyms_' = ""
  /\ read_kernel_symbols_from_proc_' = FALSE
  /\ build_id_map_' = EmptyMap
  /\ g_dump_id_' = 0
  /\ symfs_dir_' = ""
  /\ build_id_to_file_map_' = EmptyMap
  /\ vdso_64bit_' = ""
  /\ vdso_32bit_' = ""

NoLifeOp == [op |-> "none", at_defaults |-> TRUE]

LifeInit ==
  /\ dsos = [type \in LiveDsoTypes |-> 0]
  /\ dso_count_ = 0
  /\ demangle_ = TRUE
  /\ g_dump_id_ = 0
  /\ symbol_name_allocator = "empty"
  /\ life_last = NoLifeOp

\* Dso::CreateDso: the constructor of the variant runs Dso::Dso
CreateDso ==
  /\ HeldDsos < MaxDsos
  /\ \E type \in LifeDsoTypes : dsos' = [dsos EXCEPT ![type] = @ + 1]
  /\ dso_count_' = dso_count_ + 1
  /\ life_last' = [op |-> "create", at_defaults |-> processWideVars = ProcessWideDefaults]
  /\ UNCHANGED processWideVars
  /\ UNCHANGED notLifeVars

\* ElfDso::AddDexFileOffset on a live ELF_FILE Dso: new DexFileDso runs Dso::Dso
ReclassifyDso ==
  /\ dsos["DSO_ELF_FILE"] > 0
  /\ dsos' = [dsos EXCEPT !["DSO_ELF_FILE"] = @ - 1, !["DSO_DEX_FILE"] = @ + 1]
  /\ dso_count_' = dso_count_ + 1
  /\ life_last' = [op |-> "create", at_defaults |-> processWideVars = ProcessWideDefaults]
  /\ UNCHANGED processWideVars
  /\ UNCHANGED notLifeVars

\* a Dso is released: ~ElfDso destroys dex_file_dso_ (Dso::~Dso of the nested
\* one), then Dso::~Dso of the object itself runs
DestroyDso ==
  /\ \E type \in LiveDsoTypes :
       /\ dsos[type] > 0
       /\ dsos' = [dsos EXCEPT ![type] = @ - 1]
       /\ LET inner == IF HasNested(type) THEN DsoDestructor(dso_count_)
                       ELSE [count |-> dso_count_, clean_up |-> FALSE]
              outer == DsoDestructor(inner.count)
          IN /\ dso_count_' = outer.count
             /\ IF inner.clean_up \/ outer.clean_up
                THEN CleanUp
                ELSE UNCHANGED processWideVars
  /\ life_last' = [op |-> "destroy", at_defaults |-> processWideVars = ProcessWideDefaults]
  /\ UNCHANGED notLifeVars

\* Dso::SetDemangle
SetDemangle ==
  /\ \E demangle \in BOOLEAN : demangle_' = demangle
  /\ UNCHANGED <<symbol_name_allocator, vmlinux_, kallsyms_,
                 read_kernel_symbols_from_proc_, build_id_map_, g_dump_id_, symfs_dir_,
                 build_id_to_file_map_, vdso_64bit_, vdso_32bit_>>
  /\ UNCHANGED <<dsos, dso_count_, life_last>>
  /\ UNCHANGED notLifeVars

\* Dso::SetVmlinux
SetVmlinux ==
  /\ vmlinux_' = "/vmlinux"
  /\ UNCHANGED <<symbol_name_allocator, demangle_, kallsyms_,
                 read_kernel_symbols_from_proc_, build_id_map_, g_dump_id_, symfs_dir_,
                 build_id_to_file_map_, vdso_64bit_, vdso_32bit_>>
  /\ UNCHANGED <<dsos, dso_count_, life_last>>
  /\ UNCHANGED notLifeVars

\* Dso::SetKallsyms, as ReportLib::SetKallsymsFile calls it
SetKallsyms ==
  /\ kallsyms_' = "kallsyms text"
  /\ UNCHANGED <<symbol_name_allocator, demangle_, vmlinux_,
                 read_kernel_symbols_from_proc_, build_id_map_, g_dump_id_, symfs_dir_,
                 build_id_to_file_map_, vdso_64bit_, vdso_32bit_>>
  /\ UNCHANGED <<dsos, dso_count_, life_last>>
  /\ UNCHANGED notLifeVars

\* Dso::ReadKernelSymbolsFromProc
ReadKernelSymbolsFromProc ==
  /\ read_kernel_symbols_from_proc_' = TRUE
  /\ UNCHANGED <<symbol_name_allocator, demangle_, vmlinux_, kallsyms_, build_id_map_,
                 g_dump_id_, symfs_dir_, build_id_to_file_map_, vdso_64bit_, vdso_32bit_>>
  /\ UNCHANGED <<dsos, dso_count_, life_last>>
  /\ UNCHANGED notLifeVars

\* Dso::SetBuildIds with the kernel's build-id
SetBuildIdsOfKernel ==
  /\ build_id_map_' = InsertPairs(EmptyMap, << <<KernelPath, 1>> >>)
  /\ UNCHANGED <<symbol_name_allocator, demangle_, vmlinux_, kallsyms_,
                 read_kernel_symbols_from_proc_, g_dump_id_, symfs_dir_,
                 build_id_to_file_map_, vdso_64bit_, vdso_32bit_>>
  /\ UNCHANGED <<dsos, dso_count_, life_last>>
  /\ UNCHANGED notLifeVars

\* Dso::CreateDumpId on a live Dso
CreateDumpId ==
  /\ dso_count_ > 0
  /\ g_dump_id_ < MaxDsos
  /\ g_dump_id_' = g_dump_id_ + 1
  /\ UNCHANGED <<symbol_name_allocator, demangle_, vmlinux_, kallsyms_,
                 read_kernel_symbols_from_proc_, build_id_map_, symfs_dir_,
                 build_id_to_file_map_, vdso_64bit_, vdso_32bit_>>
  /\ UNCHANGED <<dsos, dso_count_, life_last>>
  /\ UNCHANGED notLifeVars

\* Symbol::Symbol: the name goes to symbol_name_allocator
AllocateSymbolName ==
  /\ symbol_name_allocator' = "holding"
  /\ UNCHANGED <<demangle_, vmlinux_, kallsyms_, read_kernel_symbols_from_proc_,
                 build_id_map_, g_dump_id_, symfs_dir_, build_id_to_file_map_,
                 vdso_64bit_, vdso_32bit_>>
  /\ UNCHANGED <<dsos, dso_count_, life_last>>
  /\ UNCHANGED notLifeVars

LifeNext ==
  \/ CreateDso
  \/ ReclassifyDso
  \/ DestroyDso
  \/ SetDemangle
  \/ SetVmlinux
  \/ SetKallsyms
  \/ ReadKernelSymbolsFromProc
  \/ SetBuildIdsOfKernel
  \/ CreateDumpId
  \/ AllocateSymbolName
  \/ SetSymFsDir
  \/ SetVdsoFile

\* ----------------------------------------------- Dso::Load on given symbols
NoLoadCall == [prior |-> <<>>, loaded |-> <<>>, merged |-> <<>>, done |-> FALSE]

LoadInit ==
  load_call \in { [prior |-> p, loaded |-> l, merged |-> <<>>, done |-> FALSE] :
                    p \in PriorLists, l \in ElfLoadResults }

LoadIdle == load_call = NoLoadCall

\* Dso::Load on symbols_ = prior while LoadSymbols() returns loaded
LoadOverSymbols ==
  /\ ~load_call.done
  /\ load_call' = [load_call EXCEPT
                     !.merged = Load(FALSE, load_call.prior, load_call.loaded).symbols,
                     !.done = TRUE]
  /\ UNCHANGED notLoadVars

LoadNext == LoadOverSymbols

\* ------------------------------------------------------- read_dex_file.cpp
\* sizeof(art::DexFile::Header), in the unit the file sizes are counted in
SizeofHeader == 2
DexFileSizes == {0, SizeofHeader + 1, SizeofHeader + 2}
\* a header: its file_size_ field, and whether DexFileLoader::Open succeeds on it
DexHeaders ==
  { [file_size_ |-> SizeofHeader, opens |-> TRUE],
    [file_size_ |-> SizeofHeader, opens |-> FALSE],
    [file_size_ |-> SizeofHeader + 1, opens |-> TRUE] }
\* the offsets at which a file of this size holds a whole header
HeaderOffsets(file_size) ==
  { o \in DexOffsets : o < file_size /\ file_size - o >= SizeofHeader }
NoDexFile == [exists |-> FALSE, size |-> 0, headers |-> <<>>]
DexFiles ==
  {NoDexFile} \cup
  UNION { { [exists |-> TRUE, size |-> sz, headers |-> h] :
              h \in [HeaderOffsets(sz) -> DexHeaders] } : sz \in DexFileSizes }

\* dexfile_callback of ReadSymbolsFromDexFile: the dex file at dex_file_offset
\* holds one method, its code one unit into the dex file
DexFileCallback(dex_file_offset) ==
  [name |-> "f", offset |-> (1 + dex_file_offset) % U64Mod, len |-> 1]

\* the loop of OpenDexFiles going on after an offset it rejects
RECURSIVE OpenDexFilesSkipBad(_, _, _, _, _)
OpenDexFilesSkipBad(file, dex_file_offsets, i, opened, symbols) ==
  IF i > Len(dex_file_offsets)
  THEN [ok |-> TRUE, opened |-> opened, symbols |-> symbols]
  ELSE LET offset == dex_file_offsets[i]
       IN IF \/ offset >= file.size
             \/ file.size - offset < SizeofHeader
             \/ file.size - offset < file.headers[offset].file_size_
             \/ ~file.headers[offset].opens
          THEN OpenDexFilesSkipBad(file, dex_file_offsets, i + 1, opened, symbols)
          ELSE OpenDexFilesSkipBad(file, dex_file_offsets, i + 1, Append(opened, offset),
                                   Append(symbols, DexFileCallback(offset)))

\* the loop of OpenDexFiles from the i-th offset on: [ok, opened, symbols],
\* opened being the offsets the callback ran for
RECURSIVE OpenDexFiles(_, _, _, _, _)
OpenDexFiles(file, dex_file_offsets, i, opened, symbols) ==
  IF i > Len(dex_file_offsets)
  THEN [ok |-> TRUE, opened |-> opened, symbols |-> symbols]
  ELSE LET offset == dex_file_offsets[i]
       IN IF offset >= file.size \/ file.size - offset < SizeofHeader
          THEN [ok |-> FALSE, opened |-> opened, symbols |-> symbols]
          ELSE IF file.size - offset < file.headers[offset].file_size_
               THEN [ok |-> FALSE, opened |-> opened, symbols |-> symbols]
               ELSE IF ~file.headers[offset].opens
                    THEN [ok |-> FALSE, opened |-> opened, symbols |-> symbols]
                    ELSE OpenDexFiles(file, dex_file_offsets, i + 1,
                                      Append(opened, offset),
                                      Append(symbols, DexFileCallback(offset)))

\* ReadSymbolsFromDexFile: false at once when the file cannot be opened
ReadSymbolsFromDexFile(file, dex_file_offsets) ==
  IF ~file.exists
  THEN [ok |-> FALSE, opened |-> <<>>, symbols |-> <<>>]
  ELSE OpenDexFiles(file, dex_file_offsets, 1, <<>>, <<>>)

NoDexParse ==
  [calls |-> 0, offsets |-> <<>>, ok |-> FALSE, opened |-> <<>>, prior |-> <<>>]

\* the vectors a DexFileDso got from SetSymbols before the file is read
InstalledSymbols == { <<>>, <<Symbol("f", 0, MaxU64)>> }

\* a DexFileDso as CreateDso makes it, SetSymbols called on it or not
DexInit ==
  /\ type_ = "DSO_DEX_FILE"
  /\ path_ = DsoPath(type_)
  /\ is_loaded_ = FALSE
  /\ symbols_ \in InstalledSymbols
  /\ unknown_symbols_ = EmptyMap
  /\ vmlinux_ = ""
  /\ kallsyms_ = ""
  /\ read_kernel_symbols_from_proc_ = FALSE
  /\ build_id_map_ = EmptyMap
  /\ found = NoFindSymbol
  /\ last_load = NoLoad
  /\ dex_file \in DexFiles
  /\ dex_parse = NoDexParse

DexIdle ==
  /\ dex_file = NoDexFile
  /\ dex_parse = NoDexParse

\* Dso::FindSymbol on a DexFileDso not loaded yet: Load() with
\* DexFileDso::LoadSymbols reading dex_file, then the search
FindSymbolLoadsDexFile ==
  /\ ~is_loaded_
  /\ type_ = "DSO_DEX_FILE"
  /\ LET parse == ReadSymbolsFromDexFile(dex_file, dex_file_offsets_)
     IN \E loaded \in DexFileDsoLoadSymbols(parse.ok, parse.symbols) :
          LET l == Load(is_loaded_, symbols_, loaded)
          IN /\ is_loaded_' = l.is_loaded
             /\ symbols_' = l.symbols
             /\ last_load' = [calls |-> last_load.calls + 1, source |-> "file",
                              real_build_id |-> NoBuildId, empty |-> loaded = <<>>]
             /\ dex_parse' = [calls |-> dex_parse.calls + 1,
                              offsets |-> dex_file_offsets_, ok |-> parse.ok,
                              opened |-> parse.opened, prior |-> symbols_]
  /\ \E v \in Vaddrs : found' = Lookup(symbols_', unknown_symbols_, v)
  /\ UNCHANGED <<type_, path_, unknown_symbols_, vmlinux_, kallsyms_,
                 read_kernel_symbols_from_proc_>>
  /\ UNCHANGED notDexVars

DexNext ==
  \/ AddDexFileOffset
  \/ AddUnknownSymbol
  \/ FindSymbolLoadsDexFile
  \/ FindSymbolLoaded

\* --------------------------------------------------------- specifications
SampleSpecInit ==
  SampleInit /\ FilterIdle /\ DsoIdle /\ BuildIdInit /\ FinderIdle /\ ElfIdle /\ LifeInit
  /\ LoadIdle /\ DexIdle
FilterSpecInit ==
  FilterInit /\ SampleIdle /\ DsoIdle /\ BuildIdInit /\ FinderIdle /\ ElfIdle /\ LifeInit
  /\ LoadIdle /\ DexIdle
DsoSpecInit ==
  DsoInit /\ SampleIdle /\ FilterIdle /\ BuildIdGhostInit /\ FinderIdle /\ ElfIdle /\ LifeInit
  /\ LoadIdle /\ DexIdle
BuildIdSpecInit ==
  BuildIdInit /\ SampleIdle /\ FilterIdle /\ DsoIdle /\ FinderIdle /\ ElfIdle /\ LifeInit
  /\ LoadIdle /\ DexIdle
FinderSpecInit ==
  FinderInit /\ SampleIdle /\ FilterIdle /\ DsoIdle /\ BuildIdInit /\ ElfIdle /\ LifeInit
  /\ LoadIdle /\ DexIdle
ElfDsoSpecInit ==
  /\ DsoInit
  /\ type_ \in {"DSO_ELF_FILE", "DSO_DEX_FILE"}
  /\ ElfInit
  /\ SampleIdle /\ FilterIdle /\ BuildIdGhostInit /\ FinderIdle /\ LifeInit
  /\ LoadIdle /\ DexIdle
LifeSpecInit ==
  LifeInit /\ SampleIdle /\ FilterIdle /\ DsoIdle /\ BuildIdInit /\ FinderIdle /\ ElfIdle
  /\ LoadIdle /\ DexIdle
LoadSpecInit ==
  LoadInit /\ SampleIdle /\ FilterIdle /\ DsoIdle /\ BuildIdInit /\ FinderIdle /\ ElfIdle
  /\ LifeInit /\ DexIdle
DexSpecInit ==
  DexInit /\ ElfIdle /\ LoadIdle /\ SampleIdle /\ FilterIdle /\ BuildIdGhostInit
  /\ FinderIdle /\ LifeInit

\* the sample stream of one ReportLib
SpecSample == SampleSpecInit /\ [][SampleNext]_vars

\* the frame filter applied to every raw call chain
SpecFilter == FilterSpecInit /\ [][FilterNext]_vars

\* one Dso: SetSymbols, AddUnknownSymbol and FindSymbol with its lazy load
SpecDso == DsoSpecInit /\ [][DsoNext]_vars

\* the process-wide build-id map
SpecBuildIds == BuildIdSpecInit /\ [][BuildIdNext]_vars

\* one DebugElfFileFinder over a disk of debug files
SpecFinder == FinderSpecInit /\ [][FinderNext]_vars

\* one ElfDso or DexFileDso: DEX offsets, minimum virtual address, FindSymbol
SpecElfDso == ElfDsoSpecInit /\ [][ElfNext]_vars

\* the Dso objects of a process and the process-wide state they share
SpecLifecycle == LifeSpecInit /\ [][LifeNext]_vars

\* Dso::Load over every pair of installed and loaded symbol vectors
SpecLoad == LoadSpecInit /\ [][LoadNext]_vars

\* one DexFileDso over a file of DEX headers
SpecDex == DexSpecInit /\ [][DexNext]_vars

\* ------------------------------------------------------------------ claims
\* the indices, in file order, of the SAMPLE records read so far (of tid t)
SampleIdxs == SelectSeq([i \in 1..Len(read) |-> i], LAMBDA i : read[i].type = "SAMPLE")
SampleIdxsOf(t) ==
  SelectSeq([i \in 1..Len(read) |-> i],
            LAMBDA i : read[i].type = "SAMPLE" /\ read[i].tid = t)
EmittedIdxs == [i \in 1..Len(emitted) |-> emitted[i].idx]
EmittedOf(t) == SelectSeq(emitted, LAMBDA e : e.tid = t)
\* the position among its tid's SAMPLE records of the record with index idx
RankOnTid(idx) ==
  Cardinality({ i \in 1..idx : read[i].type = "SAMPLE" /\ read[i].tid = read[idx].tid })

\* C1: with trace_offcpu the period of the k-th sample of a tid is
\* time(sample k+1) - time(sample k), at least 1 (so strictly positive for every
\* pair of timestamps); without trace_offcpu it is the record's own period.
C1_PeriodIsClampedTimeDifference ==
  \A i \in 1..Len(emitted) :
    LET e == emitted[i]
        ofTid == SampleIdxsOf(e.tid)
        k == RankOnTid(e.idx)
    IN IF trace_offcpu_
       THEN /\ k < Len(ofTid)
            /\ e.period = Max(read[ofTid[k + 1]].time - read[e.idx].time, 1)
            /\ e.period >= 1
       ELSE e.period = read[e.idx].period

\* C2: with trace_offcpu, once the records are exhausted a tid with n >= 1
\* SAMPLE records has had exactly its first n-1 emitted, its last SAMPLE record
\* is still held in next_sample_cache_, and GetNextSample returns none.
C2_LastSamplePerTidNeverEmitted ==
  (trace_offcpu_ /\ ended) =>
    /\ returned = "none"
    /\ \A t \in Tids :
         LET ofTid == SampleIdxsOf(t)
             n == Len(ofTid)
         IN IF n = 0
            THEN EmittedOf(t) = <<>> /\ next_sample_cache_[t] = NoRecord
            ELSE /\ Len(EmittedOf(t)) = n - 1
                 /\ \A e \in 1..Len(emitted) : emitted[e].idx # ofTid[n]
                 /\ next_sample_cache_[t] = read[ofTid[n]]

C2_Witness ==
  /\ trace_offcpu_ /\ ended
  /\ \E t, u \in Tids :
       /\ Len(SampleIdxsOf(t)) >= 2
       /\ Len(SampleIdxsOf(u)) = 1
       /\ Len(EmittedOf(t)) >= 1

\* C3: without trace_offcpu the emitted samples are exactly the SAMPLE records
\* in file order, each returned by the call that reads it; with trace_offcpu the
\* k-th SAMPLE record of a tid is returned by the call that reads the (k+1)-th
\* SAMPLE record of that tid, so each tid's samples come in file order.
C3_EmittedInFileOrderDeferredByOne ==
  IF ~trace_offcpu_
  THEN /\ EmittedIdxs = SampleIdxs
       /\ \A i \in 1..Len(emitted) : emitted[i].upto = emitted[i].idx
  ELSE \A t \in Tids :
         LET ofTid == SampleIdxsOf(t)
             em == EmittedOf(t)
         IN /\ Len(em) = Max(Len(ofTid) - 1, 0)
            /\ \A k \in 1..Len(em) : em[k].idx = ofTid[k] /\ em[k].upto = ofTid[k + 1]

C3_Witness ==
  /\ trace_offcpu_
  /\ \E i \in 1..Len(emitted) : emitted[i].upto > emitted[i].idx + 1

\* the symbols of symbols_ whose range [addr, addr + len) holds v
Covering(v) ==
  { i \in 1..Len(symbols_) :
      symbols_[i].addr <= v /\ v < symbols_[i].addr + symbols_[i].len }
\* the symbols of symbols_ that start at or below v
StartingAtOrBelow(v) == { i \in 1..Len(symbols_) : symbols_[i].addr <= v }
FoundInUnknownOrNone ==
  IF found.vaddr \in DOMAIN unknown_symbols_
  THEN found.from = "unknown" /\ found.symbol = unknown_symbols_[found.vaddr]
  ELSE found.from = "none"

\* C4 as stated: FindSymbol(v) on a loaded Dso returns a symbol of the list iff
\* some symbol of the list covers v (addr <= v < addr + len), the returned
\* symbol covers v, and only when none covers v the unknown_symbols entry keyed
\* by v, or none, is returned.
C4_FindSymbolIffSomeSymbolCovers ==
  found.from # "no call" =>
    /\ (found.from = "symbols") <=> (Covering(found.vaddr) # {})
    /\ found.from = "symbols" =>
         found.index \in Covering(found.vaddr) /\ found.symbol = symbols_[found.index]
    /\ Covering(found.vaddr) = {} => FoundInUnknownOrNone

\* C4 amended: FindSymbol(v) on a loaded Dso looks only at the last symbol s of
\* the list with s.addr <= v; it returns s iff v < (s.addr + s.len) mod 2^64, and
\* s then covers v; otherwise (also when an earlier symbol covers v) it returns
\* the unknown_symbols entry keyed by v, or none.
C4_FindSymbolChecksLastSymbolAtOrBelow ==
  found.from # "no call" =>
    LET v == found.vaddr
        below == StartingAtOrBelow(v)
        last == CHOOSE i \in below : \A j \in below : j <= i
    IN IF below # {} /\ v < (symbols_[last].addr + symbols_[last].len) % U64Mod
       THEN /\ found.from = "symbols"
            /\ found.index = last
            /\ found.symbol = symbols_[last]
            /\ last \in Covering(v)
       ELSE FoundInUnknownOrNone

C4_Witness ==
  /\ is_loaded_
  /\ found.from = "symbols"
  /\ found.index >= 2
  /\ Cardinality(Covering(found.vaddr)) >= 2

NonDecreasingAddrs ==
  \A i, j \in 1..Len(symbols_) : i < j => symbols_[i].addr <= symbols_[j].addr
RangesOverlap(s1, s2) ==
  /\ s1.len > 0
  /\ s2.len > 0
  /\ Max(s1.addr, s2.addr) < Max(0, IF s1.addr + s1.len < s2.addr + s2.len
                                    THEN s1.addr + s1.len ELSE s2.addr + s2.len)

\* C5 as stated: after Load (also one merging into symbols installed by
\* SetSymbols) the symbols are sorted by addr ascending and no two symbols'
\* ranges [addr, addr + len) overlap.
C5_LoadedSymbolsSortedAndDisjoint ==
  is_loaded_ =>
    /\ NonDecreasingAddrs
    /\ \A i, j \in 1..Len(symbols_) : i < j => ~RangesOverlap(symbols_[i], symbols_[j])

\* C5 amended: after Load (also one merging into an addr-sorted vector installed
\* by SetSymbols) the symbols are sorted by addr ascending; ranges may overlap.
C5_LoadedSymbolsSorted == is_loaded_ => NonDecreasingAddrs

C5_Witness ==
  /\ is_loaded_
  /\ Len(symbols_) >= 3
  /\ \E i \in 1..Len(symbols_) - 1 : symbols_[i].addr < symbols_[i + 1].addr

\* C6: with ART-frame suppression enabled, filtering the frames that survived
\* the filter leaves them as they are.
C6_FilterIsIdempotent ==
  (~filter_show /\ refiltered # "none") => refiltered = filtered

C6_Witness ==
  /\ ~filter_show
  /\ refiltered # "none"
  /\ Len(filtered) >= 2
  /\ Len(filtered) < Len(raw_chain)

\* the raw chain as frames, and the classes C7 sorts frames into
RawFrames == ResolveIps(raw_chain)
IsDexFrame(i) == RawFrames[i][2].dso.type = "DSO_DEX_FILE"
IsInterpreterFrame(i) ==
  EndsWith(RawFrames[i][2].dso.path, "/libart.so") /\ ~IsDexFrame(i)
\* frame i lies in the run of interpreter frames right before or right after a
\* DEX frame
InRunNextToDexFrame(i) ==
  \E d \in 1..Len(RawFrames) :
    /\ IsDexFrame(d)
    /\ \/ d < i /\ \A k \in (d + 1)..i : IsInterpreterFrame(k)
       \/ d > i /\ \A k \in i..(d - 1) : IsInterpreterFrame(k)
SurvivorsAsClaimed ==
  SelectSeq([i \in 1..Len(RawFrames) |-> i],
            LAMBDA i : filter_show \/ ~(IsInterpreterFrame(i) /\ InRunNextToDexFrame(i)))

\* C7: with suppression enabled the surviving frames are the raw frames in
\* order minus every interpreter frame (path ending in "/libart.so", dso not
\* DEX) in the run of interpreter frames right before or right after a DEX
\* frame; DEX frames and other frames are never dropped; with
\* ShowArtFrames(true) nothing is dropped.
C7_SurvivorsAreRawMinusInterpreterRuns ==
  filtered # "none" =>
    filtered = [k \in 1..Len(SurvivorsAsClaimed) |-> RawFrames[SurvivorsAsClaimed[k]]]

\* the candidates FindDebugFile has for the call recorded in debug_file, in
\* the order (a), (b), (c)
CallBuildId ==
  IF debug_file.build_id # NoBuildId THEN debug_file.build_id
  ELSE IF debug_file.dso_path \in DOMAIN disk THEN disk[debug_file.dso_path]
  ELSE NoBuildId
Candidates ==
  (IF BuildIdToString(CallBuildId) \in DOMAIN build_id_to_file_map_
   THEN << symfs_dir_ \o build_id_to_file_map_[BuildIdToString(CallBuildId)] >>
   ELSE << >>)
  \o << symfs_dir_ \o debug_file.dso_path, "/usr/lib/debug" \o debug_file.dso_path >>
HasCallBuildId(path) == path \in DOMAIN disk /\ disk[path] = CallBuildId
MatchingCandidates == { i \in 1..Len(Candidates) : HasCallBuildId(Candidates[i]) }

\* C8: for a dso_path other than "[vdso]" with symfs_dir set and a build-id
\* given or readable from dso_path, FindDebugFile returns the first of the
\* candidates (a) symfs_dir + build_id_to_file[build_id], (b) symfs_dir +
\* dso_path, (c) /usr/lib/debug + dso_path whose on-disk build-id equals
\* build_id; in every other case it returns dso_path. So the result is dso_path
\* or a candidate with that build-id.
C8_FirstMatchingCandidateOrDsoPath ==
  (debug_file.dso_path # "" /\ debug_file.dso_path # VdsoPath) =>
    /\ IF symfs_dir_ # "" /\ CallBuildId # NoBuildId /\ MatchingCandidates # {}
       THEN \E i \in MatchingCandidates :
              /\ \A j \in MatchingCandidates : i <= j
              /\ debug_file.result = Candidates[i]
       ELSE debug_file.result = debug_file.dso_path
    /\ debug_file.result = debug_file.dso_path \/ HasCallBuildId(debug_file.result)

C8_Witness ==
  /\ debug_file.dso_path = ElfPath
  /\ debug_file.result = "/usr/lib/debug" \o ElfPath
  /\ Len(Candidates) = 3
  /\ Candidates[1] \in DOMAIN disk
  /\ disk[Candidates[1]] \notin {NoBuildId, CallBuildId}
  /\ disk[Candidates[2]] = NoBuildId

\* C9: for dso_path "[vdso]" FindDebugFile returns the override of the
\* requested bitness if it is set and "[vdso]" otherwise, never a symfs_dir or
\* /usr/lib/debug candidate, whatever symfs_dir and build-id index hold.
C9_VdsoOverrideOfRequestedBitness ==
  debug_file.dso_path = VdsoPath =>
    LET requested == IF debug_file.force_64bit THEN vdso_64bit_ ELSE vdso_32bit_
    IN /\ requested # "" => debug_file.result = requested
       /\ requested = "" => debug_file.result = VdsoPath
       /\ symfs_dir_ # "" =>
            debug_file.result \notin
              { symfs_dir_ \o VdsoPath, "/usr/lib/debug" \o VdsoPath }
              \cup { symfs_dir_ \o build_id_to_file_map_[k] :
                       k \in DOMAIN build_id_to_file_map_ }

C9_Witness ==
  /\ debug_file.dso_path = VdsoPath
  /\ debug_file.force_64bit
  /\ vdso_64bit_ = ""
  /\ vdso_32bit_ # ""
  /\ symfs_dir_ # ""
  /\ build_id_to_file_map_ # EmptyMap
  /\ debug_file.result = VdsoPath

\* the positions of the pairs of the latest SetBuildIds list whose path is the
\* one FindExpectedBuildIdForPath was asked for
PairsOfPath == { i \in 1..Len(last_build_ids) : last_build_ids[i][1] = expected.path }

\* C10 as stated: after SetBuildIds(pairs), FindExpectedBuildIdForPath(path)
\* returns for every pair of the list, also when the path occurs more than
\* once, the build-id of that pair, and the empty build-id for a path not in the
\* latest list, also if an earlier list had it.
C10_EveryPairReturnsItsBuildId ==
  expected.path # "" =>
    /\ \A i \in PairsOfPath : expected.build_id = last_build_ids[i][2]
    /\ PairsOfPath = {} => expected.build_id = NoBuildId

\* C10 amended: FindExpectedBuildIdForPath(path) returns the build-id of the
\* FIRST pair of the latest list that has the path (later pairs with the same
\* path are ignored), and the empty build-id for a path not in the latest list,
\* also if an earlier list had it.
C10_FirstPairOfPathReturnsItsBuildId ==
  expected.path # "" =>
    IF PairsOfPath # {}
    THEN \E i \in PairsOfPath :
           /\ \A j \in PairsOfPath : i <= j
           /\ expected.build_id = last_build_ids[i][2]
    ELSE expected.build_id = NoBuildId

C10_Witness ==
  /\ expected.path # ""
  /\ \E i, j \in PairsOfPath : i < j /\ last_build_ids[i][2] # last_build_ids[j][2]
  /\ \E p \in earlier_paths : p \notin { last_build_ids[i][1] : i \in 1..Len(last_build_ids) }

\* C11: after one or more AddDexFileOffset calls on a Dso created as ELF_FILE or
\* DEX_FILE its type is DEX_FILE and DexFileOffsets() yields exactly the offsets
\* passed, in call order (no later call discards earlier offsets); before any
\* such call an ELF Dso reports no DEX offsets.
C11_DexFileOffsetsAreTheOffsetsPassed ==
  IF offsets_passed # <<>>
  THEN /\ type_ = "DSO_DEX_FILE"
       /\ DexFileOffsets = [is_null |-> FALSE, offsets |-> offsets_passed]
  ELSE created_as = "DSO_ELF_FILE" =>
         type_ = "DSO_ELF_FILE" /\ DexFileOffsets = NoDexFileOffsets

C11_Witness ==
  /\ created_as = "DSO_ELF_FILE"
  /\ Len(offsets_passed) >= 2
  /\ offsets_passed[1] # offsets_passed[2]
  /\ DexFileOffsets.offsets = offsets_passed

\* C12: once a Dso is classified as DEX (created as DEX_FILE, or created as
\* ELF_FILE and reclassified by AddDexFileOffset), MinVirtualAddress() returns 0,
\* whatever MinVirtualAddress, SetMinVirtualAddress and FindSymbol calls came
\* before or after the reclassification.
C12_DexMinVirtualAddressIsZero ==
  (type_ = "DSO_DEX_FILE" /\ min_vaddr_returned.called) => min_vaddr_returned.value = 0

\* C13: dso_count_ is the number of live Dso objects, a nested DexFileDso
\* included, after any creations and destructions; the destruction that brings
\* the count to zero leaves the process-wide state at its defaults, and no
\* creation or destruction that leaves a Dso alive changes that state.
C13_CountIsLiveDsosAndResetAtZero ==
  /\ [](dso_count_ = LiveDsos)
  /\ [][(LiveDsos > 0 /\ LiveDsos' = 0) => processWideVars' = ProcessWideDefaults]_vars
  /\ [][(LiveDsos' # LiveDsos /\ LiveDsos' > 0) => UNCHANGED processWideVars]_vars

\* the last Dso was destroyed with process-wide state configured
C13_Witness ==
  /\ life_last.op = "destroy"
  /\ ~life_last.at_defaults
  /\ dso_count_ = 0
  /\ processWideVars = ProcessWideDefaults

\* C14: thread_tree_.Update got every record read so far, SAMPLE or not, once
\* each and in file order; when a sample is returned, every record up to and
\* including that sample had been given to Update; and only SAMPLE records are
\* returned, with or without trace_offcpu.
C14_EveryRecordUpdatesThreadTreeOnce ==
  /\ thread_tree_ = read
  /\ \A k \in 1..Len(emitted) :
       /\ emitted[k].idx \in 1..emitted[k].upto
       /\ emitted[k].upto <= Len(thread_tree_)
       /\ read[emitted[k].idx].type = "SAMPLE"
  /\ returned = "sample" =>
       /\ current_record_.type = "SAMPLE"
       /\ emitted[Len(emitted)].upto = Len(thread_tree_)

\* with trace_offcpu a deferred sample is returned after a later COMM record
C14_Witness ==
  /\ trace_offcpu_
  /\ returned = "sample"
  /\ \E i \in 1..Len(read) : read[i].type = "COMM" /\ emitted[Len(emitted)].idx < i
  /\ thread_tree_ = read

\* C15: LoadSymbols is invoked on the first FindSymbol of a Dso and at most
\* once: is_loaded_ is false with no LoadSymbols call before the first
\* FindSymbol, every FindSymbol leaves it true whatever the load returned, it
\* never goes back to false, and a FindSymbol on a loaded Dso calls LoadSymbols
\* no more.
C15_SymbolsLoadedOnFirstFindSymbolOnly ==
  /\ [](last_load.calls = IF is_loaded_ THEN 1 ELSE 0)
  /\ [][found' # NoFindSymbol => is_loaded_']_vars
  /\ [][found' = NoFindSymbol => is_loaded_' = is_loaded_]_vars
  /\ [][is_loaded_ => is_loaded_' /\ last_load' = last_load]_vars

\* a FindSymbol whose load returned nothing leaves the Dso loaded
C15_Witness ==
  /\ is_loaded_
  /\ last_load.calls = 1
  /\ last_load.empty
  /\ found.from = "none"

\* the expected build-id of the Dso, and whether the running kernel has it
ExpectedBuildId == FindExpectedBuildIdForPath(build_id_map_, path_)
ExpectedBuildIdMatches ==
  ExpectedBuildId # NoBuildId /\ ExpectedBuildId = last_load.real_build_id
KernelLoaded == type_ = "DSO_KERNEL" /\ is_loaded_

SurvivingFrames == FilterFrames(ResolveIps(current_record_.ips), show_art_frames_)
\* the CallChain handed to the caller: nr entries from current_callchain_.entries
CallChainEntries ==
  SubSeq(callchain_entries_, current_callchain_.entries,
         current_callchain_.entries + current_callchain_.nr - 1)

\* C16: for a returned sample the first surviving frame is the sample's ip and
\* its current symbol, also when the first raw frame was elided; the CallChain
\* is the remaining surviving frames in order, nr being their number; and
\* current_mappings_ holds one Mapping per surviving frame of this sample only.
C16_FirstSurvivorIsSampleRestIsCallChain ==
  /\ [][emitted' # emitted =>
          \A frames \in {SurvivingFrames'} :
             /\ Len(frames) >= 1
             /\ Len(callchain_entries_') = Len(frames)
             /\ \A i \in 1..Len(frames) :
                  /\ callchain_entries_'[i].ip = frames[i][1]
                  /\ callchain_entries_'[i].symbol.dso_name = frames[i][2].dso.path
                  /\ current_mappings_'[callchain_entries_'[i].symbol.mapping]
                       = AddMapping(frames[i][2])]_vars
  /\ [](returned = "sample" =>
          /\ current_sample_.ip = callchain_entries_[1].ip
          /\ current_symbol_ = 1
          /\ current_callchain_.nr = Len(callchain_entries_) - 1
          /\ CallChainEntries = Tail(callchain_entries_)
          /\ Len(current_mappings_) = Len(callchain_entries_)
          /\ \A i \in 1..Len(callchain_entries_) : callchain_entries_[i].symbol.mapping = i)

\* a second sample whose first raw frame was elided
C16_Witness ==
  /\ returned = "sample"
  /\ Len(emitted) >= 2
  /\ current_sample_.ip # current_record_.ips[1]
  /\ current_sample_.ip = callchain_entries_[1].ip
  /\ current_callchain_.nr >= 1

\* the number of '=' in a line, and the parts before and after the first one
EqCount(line) == Cardinality({ k \in 1..Len(line) : SubSeq(line, k, k) = "=" })
EqAt(line) == CHOOSE k \in 1..Len(line) : SubSeq(line, k, k) = "="
\* the <<key, file>> pairs of the lines of text that contain exactly one '='
ListedEntries(text) ==
  LET lines == Split(text, "\n")
  IN { <<SubSeq(lines[i], 1, EqAt(lines[i]) - 1),
         SubSeq(lines[i], EqAt(lines[i]) + 1, Len(lines[i]))>> :
       i \in { j \in 1..Len(lines) : EqCount(lines[j]) = 1 } }
\* the pairs listed by the build_id_list under dirname, none if it cannot be read
IndexOfDir(dirname) ==
  LET file == ReadFileToString(dirname \o "build_id_list")
  IN IF file.ok THEN ListedEntries(file.text) ELSE {}
WithSeparator(dir) ==
  IF SubSeq(dir, Len(dir), Len(dir)) = "/" THEN dir ELSE dir \o "/"
IndexEntries(map) == { <<k, map[k]>> : k \in DOMAIN map }
SymFsDirAndIndexUnchanged == UNCHANGED <<symfs_dir_, build_id_to_file_map_>>

\* C20: symfs_dir_ and the build-id index change only in a SetSymFsDir call
\* that returns true: a call with a path that is no directory returns false
\* and changes neither; a call with a directory returns true, sets symfs_dir_
\* to it with a trailing separator and makes the index exactly the entries of
\* the build_id_list lines with exactly one '='.
C20_SetSymFsDirOfNonDirectoryFails ==
  /\ [][~symfs_call'.called => SymFsDirAndIndexUnchanged]_vars
  /\ [][symfs_call'.called =>
          IF IsDir(symfs_call'.symfs_dir)
          THEN /\ symfs_call'.ok
               /\ symfs_dir_' = WithSeparator(symfs_call'.symfs_dir)
               /\ IndexEntries(build_id_to_file_map_') = IndexOfDir(symfs_dir_')
          ELSE ~symfs_call'.ok /\ SymFsDirAndIndexUnchanged]_vars

\* C20, amended: as above for a non-empty path; a call with the empty path
\* returns true, leaves symfs_dir_ empty (no separator) and makes the index
\* the entries of the build_id_list found without a directory prefix.
C20_SetSymFsDirOfEmptyPathClears ==
  /\ [][~symfs_call'.called => SymFsDirAndIndexUnchanged]_vars
  /\ [][symfs_call'.called =>
          IF symfs_call'.symfs_dir = ""
          THEN /\ symfs_call'.ok
               /\ symfs_dir_' = ""
               /\ IndexEntries(build_id_to_file_map_') = IndexOfDir("")
          ELSE IF IsDir(symfs_call'.symfs_dir)
          THEN /\ symfs_call'.ok
               /\ symfs_dir_' = WithSeparator(symfs_call'.symfs_dir)
               /\ IndexEntries(build_id_to_file_map_') = IndexOfDir(symfs_dir_')
          ELSE ~symfs_call'.ok /\ SymFsDirAndIndexUnchanged]_vars

\* SetSymFsDir("") after a directory with a build_id_list had been set
C20_Witness ==
  /\ symfs_call.called
  /\ symfs_call.symfs_dir = ""
  /\ symfs_call.before = "/symfs/"
  /\ symfs_call.ok
  /\ symfs_dir_ = ""
  /\ build_id_to_file_map_ = EmptyMap
  /\ IndexOfDir("/symfs/") # {}

SymbolsOf(list) == { list[i] : i \in 1..Len(list) }
AtAddr(list, a) == SelectSeq(list, LAMBDA sym : sym.addr = a)
AddrsOf(list) == { list[i].addr : i \in 1..Len(list) }
LoadedOverInstalled == load_call.done /\ load_call.prior # <<>>

\* C18: when Load runs on a Dso whose symbol list is non-empty, the resulting
\* list holds every old and every loaded symbol, two symbols being one only if
\* addr, len and name all agree, and is sorted by addr.
C18_MergeKeepsEverySymbol ==
  LoadedOverInstalled =>
    /\ SymbolsOf(load_call.merged) = SymbolsOf(load_call.prior) \cup SymbolsOf(load_call.loaded)
    /\ IsSortedByAddr(load_call.merged)

\* C18, amended: the resulting list is the set_union by addr alone: sorted by
\* addr, and for every addr it holds all the old symbols of that addr followed
\* by the loaded symbols of that addr beyond the number of old ones, so a
\* loaded symbol is dropped for each old symbol of its addr, whatever its len
\* and name.
C18_MergeIsUnionByAddrOnly ==
  LoadedOverInstalled =>
    /\ IsSortedByAddr(load_call.merged)
    /\ \A a \in AddrsOf(load_call.prior) \cup AddrsOf(load_call.loaded)
               \cup AddrsOf(load_call.merged) :
         LET old == AtAddr(load_call.prior, a)
             new == AtAddr(load_call.loaded, a)
         IN AtAddr(load_call.merged, a) = old \o SubSeq(new, Len(old) + 1, Len(new))

\* a loaded symbol is lost to an old symbol of its addr with another name
C18_Witness ==
  /\ LoadedOverInstalled
  /\ \E i \in 1..Len(load_call.loaded), j \in 1..Len(load_call.prior) :
       /\ load_call.loaded[i].addr = load_call.prior[j].addr
       /\ load_call.loaded[i].name # load_call.prior[j].name
       /\ load_call.loaded[i] \notin SymbolsOf(load_call.merged)
  /\ \E i \in 1..Len(load_call.loaded) : load_call.loaded[i] \in SymbolsOf(load_call.merged)

\* an offset the reading of dex_file rejects: fewer than sizeof(header) bytes
\* remain, offset + header.file_size exceeds the file size, or the loader fails
Rejected(offset) ==
  \/ dex_file.size - offset < SizeofHeader
  \/ offset + dex_file.headers[offset].file_size_ > dex_file.size
  \/ ~dex_file.headers[offset].opens
\* the position of the first rejected offset of the last parse, or one past the end
FirstRejected ==
  LET bad == { i \in 1..Len(dex_parse.offsets) : Rejected(dex_parse.offsets[i]) }
  IN IF bad = {} THEN Len(dex_parse.offsets) + 1
     ELSE CHOOSE i \in bad : \A j \in bad : i <= j
ParseStopsAtFirstRejected ==
  dex_parse.calls > 0 =>
    IF dex_file.exists
    THEN /\ dex_parse.ok <=> FirstRejected > Len(dex_parse.offsets)
         /\ dex_parse.opened = SubSeq(dex_parse.offsets, 1, FirstRejected - 1)
    ELSE ~dex_parse.ok /\ dex_parse.opened = <<>>
FailedParseLoadsNothing ==
  (dex_parse'.calls # dex_parse.calls /\ ~dex_parse'.ok) =>
    symbols_' = symbols_ /\ last_load'.empty
FindSymbolAfterFailedParse == is_loaded_ /\ ~dex_parse.ok /\ found # NoFindSymbol

MetaInfoUnreadable == file_exists /\ meta_info = "unreadable"

\* C21: when the meta-info section cannot be read on the first open,
\* GetNextSample returns none on that call and on every later call: the reader
\* never returns a sample and never reads a record with trace_offcpu_ and the
\* event types left unread.
C21_FailedOpenNeverEmits ==
  MetaInfoUnreadable =>
    /\ returned # "sample"
    /\ emitted = <<>>
    /\ read = <<>>
    /\ thread_tree_ = <<>>

\* the surviving frames hold a frame whose dso is DEX
KeepsDexFrame == \E i \in 1..Len(filtered) : filtered[i][2].dso.type = "DSO_DEX_FILE"

\* C22: for every non-empty raw call chain and either setting of
\* show_art_frames_ the frame loop of SetCurrentSample leaves at least one
\* frame, and whenever it removed a frame it kept a DEX frame, so
\* callchain_entries_[0] exists when the sample's ip and symbol are set.
C22_NonEmptyChainKeepsAFrame ==
  (raw_chain # <<>> /\ filtered # "none") =>
    /\ Len(filtered) >= 1
    /\ Len(filtered) <= Len(raw_chain)
    /\ Len(filtered) < Len(raw_chain) => ~filter_show /\ KeepsDexFrame

\* interpreter frames popped before and dropped after the only frame kept
C22_Witness ==
  /\ ~filter_show
  /\ filtered # "none"
  /\ Len(raw_chain) >= 3
  /\ Len(filtered) = 1
  /\ is_map_for_interpreter(FindMap(raw_chain[1]))
  /\ is_map_for_interpreter(FindMap(raw_chain[Len(raw_chain)]))

\* the records of the file that are SAMPLE records of tid, by position
SamplesOfTid(tid) == { i \in 1..Len(read) : read[i].type = "SAMPLE" /\ read[i].tid = tid }
\* the position of the next SAMPLE record of the same tid after position i
NextSampleOfTid(i) ==
  CHOOSE n \in SamplesOfTid(read[i].tid) :
    n > i /\ \A m \in SamplesOfTid(read[i].tid) : m > i => n <= m

\* C23: with trace_offcpu_ a sample is enriched once the next SAMPLE record of
\* its tid was read, and by then the thread tree has applied every record up to
\* and including that next SAMPLE record, the records that follow the sample in
\* the file included.
C23_OffCpuSampleSeesTreeUpToNextSample ==
  trace_offcpu_ =>
    \A j \in 1..Len(emitted) :
      /\ \E n \in SamplesOfTid(emitted[j].tid) : n > emitted[j].idx
      /\ emitted[j].upto = NextSampleOfTid(emitted[j].idx)
      /\ emitted[j].upto > emitted[j].idx
      /\ Len(thread_tree_) >= emitted[j].upto
      /\ SubSeq(thread_tree_, 1, emitted[j].upto) = SubSeq(read, 1, emitted[j].upto)

\* a COMM record lies between the returned sample and the next one of its tid
C23_Witness ==
  /\ trace_offcpu_
  /\ returned = "sample"
  /\ LET e == emitted[Len(emitted)]
     IN /\ e.upto = Len(thread_tree_)
        /\ \E k \in (e.idx + 1)..(e.upto - 1) : thread_tree_[k].type = "COMM"

====
